---- MODULE Spec2Model ----
(***************************************************************************)
(* Model of the virtual file system facade (TypeScriptVFS), its directory  *)
(* tree (VirtualDirectory / VirtualFile), the pending-change ledger and    *)
(* the import-declaration merge of TypeScriptASTTransformer.               *)
(*                                                                         *)
(* Strings are sequences of one-character strings, so that path splitting, *)
(* normalisation, substring tests and the copy-rename regular expression   *)
(* are computed the way the code computes them.                            *)
(***************************************************************************)
EXTENDS Integers, Sequences, FiniteSets, TLC

(***************************************************************************)
(* Characters and string helpers                                           *)
(***************************************************************************)
FORWARD_SLASH_TOKEN == "/"
DOT_TOKEN == "."

Lower == {"a","b","c","d","e","f","g","h","i","j","k","l","m",
          "n","o","p","q","r","s","t","u","v","w","x","y","z"}
Upper == {"A","B","C","D","E","F","G","H","I","J","K","L","M",
          "N","O","P","Q","R","S","T","U","V","W","X","Y","Z"}
DigitChars == <<"0","1","2","3","4","5","6","7","8","9">>
Digits == {DigitChars[i] : i \in 1..10}
\* the regular expression class \w
WordChars == Lower \cup Upper \cup Digits \cup {"_"}

SetMin(S) == CHOOSE x \in S : \A y \in S : x <= y
SetMax(S) == CHOOSE x \in S : \A y \in S : x >= y

\* String(n) for a non-negative integer, as a template literal prints it
RECURSIVE NumToStr(_)
NumToStr(n) ==
    IF n < 10 THEN <<DigitChars[n + 1]>>
    ELSE NumToStr(n \div 10) \o <<DigitChars[(n % 10) + 1]>>

\* s.substring(from) with a 0-based index
SubstringFrom(s, from) == SubSeq(s, from + 1, Len(s))
\* s.substring(0, to) with a 0-based exclusive end
SubstringTo(s, to) == SubSeq(s, 1, to)

\* s.lastIndexOf(ch), 0-based, -1 when absent
LastIndexOf(s, ch) ==
    LET idx == {i \in 1..Len(s) : s[i] = ch}
    IN IF idx = {} THEN -1 ELSE SetMax(idx) - 1

\* s.startsWith(k)
StartsWith(s, k) == Len(k) <= Len(s) /\ SubSeq(s, 1, Len(k)) = k

\* s.includes(k)
Includes(s, k) ==
    \E i \in 1..(Len(s) - Len(k) + 1) : SubSeq(s, i, i + Len(k) - 1) = k

\* s.split("/")
RECURSIVE Split(_)
Split(s) ==
    LET idx == {i \in 1..Len(s) : s[i] = FORWARD_SLASH_TOKEN}
    IN IF idx = {} THEN <<s>>
       ELSE LET i == SetMin(idx)
            IN <<SubSeq(s, 1, i - 1)>> \o Split(SubSeq(s, i + 1, Len(s)))

\* parts.join("/")
RECURSIVE JoinParts(_)
JoinParts(parts) ==
    IF Len(parts) = 0 THEN <<>>
    ELSE IF Len(parts) = 1 THEN parts[1]
    ELSE parts[1] \o <<FORWARD_SLASH_TOKEN>> \o JoinParts(Tail(parts))

\* .filter(p => p.length)
NonEmptyParts(parts) == SelectSeq(parts, LAMBDA p : Len(p) > 0)

\* parts without the last element (the array after parts.pop())
Front(parts) == SubSeq(parts, 1, Len(parts) - 1)

(***************************************************************************)
(* path.posix.normalize and path.posix.join                                *)
(***************************************************************************)
DotDot == <<".", ".">>

\* node's normalizeString on the segments of the path
RECURSIVE NormalizeSegments(_, _, _)
NormalizeSegments(segs, acc, allowAboveRoot) ==
    IF Len(segs) = 0 THEN acc
    ELSE LET s == Head(segs)
             rest == Tail(segs)
         IN IF s = <<>> \/ s = <<".">>
            THEN NormalizeSegments(rest, acc, allowAboveRoot)
            ELSE IF s = DotDot
            THEN IF Len(acc) > 0 /\ acc[Len(acc)] # DotDot
                 THEN NormalizeSegments(rest, Front(acc), allowAboveRoot)
                 ELSE IF allowAboveRoot
                 THEN NormalizeSegments(rest, Append(acc, DotDot), allowAboveRoot)
                 ELSE NormalizeSegments(rest, acc, allowAboveRoot)
            ELSE NormalizeSegments(rest, Append(acc, s), allowAboveRoot)

\* the normalized segments put together again, with the root and the
\* trailing separator of the path
WithSeparators(body, isAbsolute, trailingSeparator) ==
    IF Len(body) = 0
    THEN IF isAbsolute THEN <<"/">>
         ELSE IF trailingSeparator THEN <<".", "/">> ELSE <<".">>
    ELSE (IF isAbsolute THEN <<"/">> ELSE <<>>) \o body
            \o (IF trailingSeparator THEN <<"/">> ELSE <<>>)

PosixNormalize(p) ==
    IF Len(p) = 0 THEN <<".">>
    ELSE WithSeparators(
             JoinParts(NormalizeSegments(Split(p), <<>>, p[1] # FORWARD_SLASH_TOKEN)),
             p[1] = FORWARD_SLASH_TOKEN, p[Len(p)] = FORWARD_SLASH_TOKEN)

NormalizeJoined(joined) ==
    IF Len(joined) = 0 THEN <<".">> ELSE PosixNormalize(joined)

PosixJoin(a, b) ==
    NormalizeJoined(IF Len(a) = 0 THEN b
                    ELSE IF Len(b) = 0 THEN a
                    ELSE a \o <<"/">> \o b)

(***************************************************************************)
(* JavaScript Map with insertion order: a sequence of [k, v] entries       *)
(***************************************************************************)
NullId == 0

MapIndex(m, k) ==
    LET idx == {i \in 1..Len(m) : m[i].k = k}
    IN IF idx = {} THEN 0 ELSE SetMin(idx)
MapHas(m, k) == MapIndex(m, k) # 0
\* Map.get for maps of node ids: NullId stands for undefined
MapGet(m, k) == IF MapHas(m, k) THEN m[MapIndex(m, k)].v ELSE NullId
\* Map.set keeps the position of an existing key and appends a new one
MapSet(m, k, v) ==
    IF MapHas(m, k)
    THEN [m EXCEPT ![MapIndex(m, k)] = [k |-> k, v |-> v]]
    ELSE Append(m, [k |-> k, v |-> v])
MapDelete(m, k) == SelectSeq(m, LAMBDA e : e.k # k)
MapKeys(m) == [i \in 1..Len(m) |-> m[i].k]
MapValues(m) == [i \in 1..Len(m) |-> m[i].v]

RECURSIVE Flatten(_)
Flatten(ss) == IF Len(ss) = 0 THEN <<>> ELSE Head(ss) \o Flatten(Tail(ss))

IndexIn(seq, x) ==
    LET idx == {i \in 1..Len(seq) : seq[i] = x}
    IN IF idx = {} THEN 0 ELSE SetMin(idx)

(***************************************************************************)
(* The object heap: VirtualDirectory and VirtualFile nodes                 *)
(*   h.dirs  : sequence of directory objects, h.dirs[RootId] is rootDir    *)
(*   h.files : sequence of file objects                                    *)
(* An object's id is its index; parentDir fields hold ids.                 *)
(***************************************************************************)
RootId == 1

\* VirtualFile.getExtension
getExtension(fileName) ==
    LET dotIndex == LastIndexOf(fileName, DOT_TOKEN)
    IN IF dotIndex = -1 THEN <<>> ELSE SubstringFrom(fileName, dotIndex + 1)

\* new VirtualFile(name, content, parentDir)
VirtualFile(h, name, content, parentDir) ==
    [name |-> name,
     content |-> content,
     parentDir |-> parentDir,
     extension |-> getExtension(name),
     path |-> PosixJoin(h.dirs[parentDir].path \o <<FORWARD_SLASH_TOKEN>>, name)]

\* new VirtualDirectory(name, parentDir)
VirtualDirectory(h, name, parentDir) ==
    LET cut == SubstringFrom(PosixNormalize(name),
                             LastIndexOf(name, FORWARD_SLASH_TOKEN) + 1)
    IN [name |-> IF parentDir # NullId
                 THEN (IF Len(cut) > 0 THEN cut ELSE name)
                 ELSE PosixNormalize(name),
        path |-> IF parentDir # NullId
                 THEN PosixJoin(h.dirs[parentDir].path \o <<FORWARD_SLASH_TOKEN>>, name)
                 ELSE <<"/">>,
        parentDir |-> parentDir,
        subDirs |-> <<>>,
        files |-> <<>>]

\* the loop of findSubDirectory: follow parts through subDirs
RECURSIVE WalkParts(_, _, _)
WalkParts(h, cur, parts) ==
    IF Len(parts) = 0 THEN cur
    ELSE IF MapHas(h.dirs[cur].subDirs, Head(parts))
    THEN WalkParts(h, MapGet(h.dirs[cur].subDirs, Head(parts)), Tail(parts))
    ELSE NullId

\* the directory the loop reached is returned unless it looks like this one
acceptReached(h, this, currentDir) ==
    IF currentDir = NullId THEN NullId
    ELSE IF /\ h.dirs[currentDir].name # h.dirs[this].name
            /\ h.dirs[currentDir].path # h.dirs[this].path
            /\ h.dirs[currentDir].parentDir # h.dirs[this].parentDir
    THEN currentDir
    ELSE NullId

\* VirtualDirectory.findSubDirectory; NullId stands for undefined
findSubDirectory(h, this, searchPath) ==
    IF h.dirs[this].path = searchPath THEN this
    ELSE acceptReached(h, this,
                       WalkParts(h, this,
                                 NonEmptyParts(Split(PosixNormalize(searchPath)))))

\* files.get(fileName) of the containing directory
fileNamed(h, containingDir, fileName) ==
    IF Len(fileName) > 0 /\ containingDir # NullId
    THEN MapGet(h.dirs[containingDir].files, fileName)
    ELSE NullId

\* the file named by the last part, in the directory the other parts name
fileAtParts(h, this, parts) ==
    IF Len(parts) = 0 THEN NullId
    ELSE fileNamed(h,
                   IF Len(parts) = 1 THEN this
                   ELSE findSubDirectory(h, this, JoinParts(Front(parts))),
                   parts[Len(parts)])

\* VirtualDirectory.findFile; NullId stands for null
findFile(h, this, searchPath) ==
    fileAtParts(h, this, NonEmptyParts(Split(PosixNormalize(searchPath))))

\* the forEach of addSubDirectory; yields the heap and the directory reached
RECURSIVE AddParts(_, _, _)
AddParts(h, cur, parts) ==
    IF Len(parts) = 0 THEN [h |-> h, id |-> cur]
    ELSE LET part == Head(parts)
         IN IF ~MapHas(h.dirs[cur].subDirs, part)
            THEN LET newId == Len(h.dirs) + 1
                     newDir == VirtualDirectory(h, part, cur)
                     h1 == [h EXCEPT
                              !.dirs = Append([@ EXCEPT ![cur].subDirs =
                                                 MapSet(@, part, newId)], newDir)]
                 IN AddParts(h1, newId, Tail(parts))
            ELSE AddParts(h, MapGet(h.dirs[cur].subDirs, part), Tail(parts))

\* an addSubDirectory that makes a new last directory even when there is one
FreshLast(a, part) ==
    [h |-> [a.h EXCEPT !.dirs = Append([@ EXCEPT ![a.id].subDirs =
                                           MapSet(@, part, Len(a.h.dirs) + 1)],
                                       VirtualDirectory(a.h, part, a.id))],
     id |-> Len(a.h.dirs) + 1]
addSubDirectoryFresh(h, this, dirPath) ==
    IF Len(NonEmptyParts(Split(dirPath))) = 0 THEN [h |-> h, id |-> this]
    ELSE FreshLast(AddParts(h, this, Front(NonEmptyParts(Split(dirPath)))),
                   NonEmptyParts(Split(dirPath))[Len(NonEmptyParts(Split(dirPath)))])

\* VirtualDirectory.addSubDirectory
addSubDirectory(h, this, dirPath) ==
    AddParts(h, this, NonEmptyParts(Split(dirPath)))

\* VirtualDirectory.addFile(file: VirtualFile)
addFileObject(h, this, fileId) ==
    [h EXCEPT !.dirs[this].files = MapSet(@, h.files[fileId].name, fileId)]

\* VirtualDirectory.addFile(path, content); threw = 'File name must be provided'
addFile(h, this, pathStr, content) ==
    LET parts == Split(pathStr)
        fileName == parts[Len(parts)]
        d == addSubDirectory(h, this, JoinParts(Front(parts)))
    IN IF Len(fileName) > 0
       THEN LET newId == Len(d.h.files) + 1
                newFile == VirtualFile(d.h, fileName, content, d.id)
            IN [h |-> [dirs |-> [d.h.dirs EXCEPT ![d.id].files =
                                    MapSet(@, fileName, newId)],
                       files |-> Append(d.h.files, newFile)],
                id |-> newId, threw |-> FALSE]
       ELSE [h |-> d.h, id |-> NullId, threw |-> TRUE]

\* VirtualDirectory.removeFile: Map.delete reports whether the key was present
removeFile(h, this, fileId) ==
    [h |-> [h EXCEPT !.dirs[this].files = MapDelete(@, h.files[fileId].name)],
     ok |-> MapHas(h.dirs[this].files, h.files[fileId].name)]

\* a clone that keeps the directory of the file it is made from
cloneFileInPlace(h, newFileName, fileId, target) ==
    [h |-> [h EXCEPT !.files =
               Append(@, VirtualFile(h, newFileName, h.files[fileId].content,
                                     h.files[fileId].parentDir))],
     id |-> Len(h.files) + 1]

\* VirtualDirectory.cloneFile: allocates the clone, not yet in any file map
cloneFile(h, newFileName, fileId, target) ==
    [h |-> [h EXCEPT !.files =
               Append(@, VirtualFile(h, newFileName, h.files[fileId].content, target))],
     id |-> Len(h.files) + 1]

(***************************************************************************)
(* copyFile's rename: fileName.replace(/(\(\d+\))?\.\w+/, '')              *)
(***************************************************************************)
\* length of the longest run of characters of class cls starting at s[i]
RECURSIVE RunLen(_, _, _)
RunLen(s, i, cls) ==
    IF i <= Len(s) /\ s[i] \in cls THEN 1 + RunLen(s, i + 1, cls) ELSE 0

\* length of a match of \.\w+ starting at s[i], 0 when there is none
DotWordLen(s, i) ==
    IF i <= Len(s) /\ s[i] = "." /\ RunLen(s, i + 1, WordChars) > 0
    THEN 1 + RunLen(s, i + 1, WordChars)
    ELSE 0

\* length of a match of (\(\d+\))?\.\w+ starting at s[i], 0 when there is none
RegexMatchLen(s, i) ==
    LET d == RunLen(s, i + 1, Digits)
        group == IF s[i] = "(" /\ d > 0 /\ i + 1 + d <= Len(s) /\ s[i + 1 + d] = ")"
                 THEN d + 2 ELSE 0
    IN IF group > 0 /\ DotWordLen(s, i + group) > 0
       THEN group + DotWordLen(s, i + group)
       ELSE DotWordLen(s, i)

\* String.replace with a non-global regex: the leftmost match is removed
stripCounterAndExtension(fileName) ==
    LET starts == {i \in 1..Len(fileName) : RegexMatchLen(fileName, i) > 0}
    IN IF starts = {} THEN fileName
       ELSE LET i == SetMin(starts)
            IN SubSeq(fileName, 1, i - 1)
               \o SubSeq(fileName, i + RegexMatchLen(fileName, i), Len(fileName))

\* `${baseName}(${counter}).${extension}`
numberedName(baseName, counter, extension) ==
    baseName \o <<"(">> \o NumToStr(counter) \o <<")", ".">> \o extension

\* the while loop of copyFile: first counter whose name is free in target
RECURSIVE freeCounter(_, _, _, _, _)
freeCounter(h, target, baseName, extension, counter) ==
    IF MapHas(h.dirs[target].files, numberedName(baseName, counter, extension))
    THEN freeCounter(h, target, baseName, extension, counter + 1)
    ELSE counter

\* a copy that takes the requested name even when the target holds it
copyFileNameOverwriting(h, fileId, target, newFileName) ==
    IF Len(newFileName) > 0 THEN newFileName ELSE h.files[fileId].name

\* the name copyFile gives the copy
copyFileName(h, fileId, target, newFileName) ==
    LET fileName == IF Len(newFileName) > 0 THEN newFileName ELSE h.files[fileId].name
        extension == h.files[fileId].extension
        baseName == stripCounterAndExtension(fileName)
    IN IF MapHas(h.dirs[target].files, fileName)
       THEN numberedName(baseName,
                         freeCounter(h, target, baseName, extension, 1), extension)
       ELSE fileName

\* VirtualDirectory.copyFile; newFileName = <<>> stands for undefined
copyFile(h, this, fileId, target, newFileName) ==
    LET c == cloneFile(h, copyFileName(h, fileId, target, newFileName), fileId, target)
    IN [h |-> addFileObject(c.h, target, c.id), id |-> c.id]

\* a move that leaves the source file in its directory
\* a move that gives up when the target holds a file of the same name
moveFileRefusingExisting(h, this, fileId, target, newFileName) ==
    IF MapHas(h.dirs[target].files, h.files[fileId].name) /\ Len(newFileName) = 0
    THEN [h |-> h, id |-> NullId]
    ELSE [h |-> addFileObject(removeFile(cloneFile(h, IF Len(newFileName) > 0
                                                      THEN newFileName
                                                      ELSE h.files[fileId].name,
                                                   fileId, target).h,
                                         this, fileId).h,
                              target, Len(h.files) + 1),
          id |-> Len(h.files) + 1]
moveFileKeepingSource(h, this, fileId, target, newFileName) ==
    LET c == cloneFile(h, IF Len(newFileName) > 0 THEN newFileName
                          ELSE h.files[fileId].name, fileId, target)
    IN [h |-> addFileObject(c.h, target, c.id), id |-> c.id]

\* VirtualDirectory.moveFile; id = NullId stands for null
moveFile(h, this, fileId, target, newFileName) ==
    LET existingFile == MapGet(h.dirs[target].files, h.files[fileId].name)
        c == cloneFile(h, IF Len(newFileName) > 0 THEN newFileName
                          ELSE h.files[fileId].name, fileId, target)
        rem == IF existingFile # NullId /\ Len(newFileName) = 0
               THEN removeFile(c.h, target, existingFile)
               ELSE [h |-> c.h, ok |-> TRUE]
    IN IF rem.ok
       THEN [h |-> addFileObject(removeFile(rem.h, this, fileId).h, target, c.id),
             id |-> c.id]
       ELSE [h |-> rem.h, id |-> NullId]

\* the lookup loop of removeSubDirectory: subDirs.get, part by part
RECURSIVE GetParts(_, _, _)
GetParts(h, cur, parts) ==
    IF Len(parts) = 0 THEN cur
    ELSE LET next == MapGet(h.dirs[cur].subDirs, Head(parts))
         IN IF next = NullId THEN NullId ELSE GetParts(h, next, Tail(parts))

\* a removeSubDirectory that does not look at what the directory holds
removeSubDirectoryForced(h, this, dirPath, force) ==
    LET parts == NonEmptyParts(Split(dirPath))
        currentDir == GetParts(h, this, parts)
    IN IF currentDir = NullId \/ Len(parts) = 0 THEN [h |-> h, ok |-> FALSE]
       ELSE [h |-> [h EXCEPT !.dirs[h.dirs[currentDir].parentDir].subDirs =
                                MapDelete(@, parts[Len(parts)])],
             ok |-> TRUE]
\* VirtualDirectory.removeSubDirectory
removeSubDirectory(h, this, dirPath, force) ==
    LET parts == NonEmptyParts(Split(dirPath))
        currentDir == GetParts(h, this, parts)
    IN IF currentDir = NullId THEN [h |-> h, ok |-> FALSE]
       ELSE IF ~force /\ (Len(h.dirs[currentDir].files) > 0
                          \/ Len(h.dirs[currentDir].subDirs) > 0)
       THEN [h |-> h, ok |-> FALSE]
       ELSE LET parent == h.dirs[currentDir].parentDir
            IN IF parent = NullId \/ Len(parts) = 0 THEN [h |-> h, ok |-> FALSE]
               ELSE [h |-> [h EXCEPT !.dirs[parent].subDirs =
                                        MapDelete(@, parts[Len(parts)])],
                     ok |-> MapHas(h.dirs[parent].subDirs, parts[Len(parts)])]

(***************************************************************************)
(* Garbage collection: objects no longer reachable from rootDir are        *)
(* dropped and the live ones numbered in pre-order, so that a tree has one *)
(* representation.                                                         *)
(***************************************************************************)
RECURSIVE DirOrder(_, _)
DirOrder(h, id) ==
    <<id>> \o Flatten([i \in 1..Len(h.dirs[id].subDirs) |->
                          DirOrder(h, h.dirs[id].subDirs[i].v)])

Collect(h) ==
    LET dorder == DirOrder(h, RootId)
        forder == Flatten([i \in 1..Len(dorder) |-> MapValues(h.dirs[dorder[i]].files)])
        renum(m, order) == [i \in 1..Len(m) |->
                               [k |-> m[i].k, v |-> IndexIn(order, m[i].v)]]
    IN [dirs |-> [i \in 1..Len(dorder) |->
                    LET d == h.dirs[dorder[i]]
                    IN [d EXCEPT !.parentDir = IndexIn(dorder, @),
                                 !.subDirs = renum(@, dorder),
                                 !.files = renum(@, forder)]],
        files |-> [i \in 1..Len(forder) |->
                    [h.files[forder[i]] EXCEPT !.parentDir = IndexIn(dorder, @)]]]

(***************************************************************************)
(* The backing store (node's fs), keyed by the path strings the code       *)
(* passes to it.  d.dirs is the set of directories, d.files maps a file    *)
(* path to its content; the working directory and "/" always exist.        *)
(***************************************************************************)
DirnameOf(parts) ==
    IF Len(parts) <= 1 THEN <<".">>
    ELSE IF \A i \in 1..(Len(parts) - 1) : Len(parts[i]) = 0 THEN <<"/">>
    ELSE JoinParts(Front(parts))
Dirname(p) == DirnameOf(Split(p))
LastPart(parts) == parts[Len(parts)]
Basename(p) == LastPart(Split(p))

\* the canonical form under which the store keeps a path
WithoutTrailingSlash(n) ==
    IF Len(n) > 1 /\ n[Len(n)] = FORWARD_SLASH_TOKEN THEN Front(n) ELSE n
Resolve(p) == WithoutTrailingSlash(PosixNormalize(p))

\* the store at a canonical path r
IsAlwaysDir(r) == r = <<".">> \/ r = <<"/">>
IsDirectoryAt(d, r) == r \in d.dirs \/ IsAlwaysDir(r)
IsFileAt(d, r) == r \in DOMAIN d.files

isDirectory(d, p) == IsDirectoryAt(d, Resolve(p))
isFile(d, p) == IsFileAt(d, Resolve(p))
ExistsAt(d, r) == IsDirectoryAt(d, r) \/ IsFileAt(d, r)
existsSync(d, p) == ExistsAt(d, Resolve(p))

\* p and its ancestors up to the working directory or "/"
RECURSIVE PathChain(_)
PathChain(p) == IF IsAlwaysDir(p) THEN {} ELSE {p} \cup PathChain(Dirname(p))

\* fs.mkdirSync(p, { recursive: true })
MakeChain(d, chain) ==
    IF \E q \in chain : IsFileAt(d, q)
    THEN [d |-> d, threw |-> TRUE]
    ELSE [d |-> [d EXCEPT !.dirs = @ \cup chain], threw |-> FALSE]
mkdirSync(d, p) == MakeChain(d, PathChain(Resolve(p)))

\* fs.writeFileSync(p, content)
WriteAt(d, r, content) ==
    IF IsDirectoryAt(d, r) \/ ~IsDirectoryAt(d, Dirname(r))
    THEN [d |-> d, threw |-> TRUE]
    ELSE [d |-> [d EXCEPT !.files = (r :> content) @@ @], threw |-> FALSE]
writeFileSync(d, p, content) == WriteAt(d, Resolve(p), content)

\* fs.rmSync(p) without options: p must be an existing file
RemoveAt(d, r) ==
    IF ~IsFileAt(d, r)
    THEN [d |-> d, threw |-> TRUE]
    ELSE [d |-> [d EXCEPT !.files = [q \in DOMAIN @ \ {r} |-> @[q]]],
          threw |-> FALSE]
rmSync(d, p) == RemoveAt(d, Resolve(p))

\* fs.readdirSync(p): the names of the entries of directory p
EntriesAt(d, r) ==
    {Basename(q) : q \in {x \in d.dirs \cup DOMAIN d.files :
                            Dirname(x) = r /\ x # r}}
readdirSync(d, p) == EntriesAt(d, Resolve(p))

NODE_MODULES == <<"n","o","d","e","_","m","o","d","u","l","e","s">>

\* TypeScriptVFS.loadPhysicalDirectoryToVirtual: the set of heaps it can
\* produce, one for each order in which readdirSync lists the entries
RECURSIVE loadPhysicalDirectoryToVirtual(_, _, _, _)
RECURSIVE LoadEntries(_, _, _, _, _)
LoadEntries(d, physicalDirPath, h, virtualDir, remaining) ==
    IF remaining = {} THEN {h}
    ELSE UNION {
        LET entryPath == PosixJoin(physicalDirPath, e)
            after ==
              IF e = NODE_MODULES THEN {h}
              ELSE IF isDirectory(d, entryPath)
              THEN LET a == addSubDirectory(h, virtualDir, e)
                   IN loadPhysicalDirectoryToVirtual(d, entryPath, a.h, a.id)
              ELSE {addFile(h, virtualDir, e, d.files[Resolve(entryPath)]).h}
        IN UNION {LoadEntries(d, physicalDirPath, h2, virtualDir, remaining \ {e})
                    : h2 \in after}
        : e \in remaining}
loadPhysicalDirectoryToVirtual(d, physicalDirPath, h, virtualDir) ==
    LoadEntries(d, physicalDirPath, h, virtualDir, readdirSync(d, physicalDirPath))

\* the heap holding only new VirtualDirectory(root, null)
EmptyTree(rootStr) ==
    [dirs |-> <<VirtualDirectory([dirs |-> <<>>, files |-> <<>>], rootStr, NullId)>>,
     files |-> <<>>]

\* the rootDir getter: the loaded tree, or an empty root when the load throws
LoadedTrees(d, rootStr) ==
    IF isDirectory(d, rootStr)
    THEN {Collect(h) : h \in loadPhysicalDirectoryToVirtual(d, rootStr,
                                                          EmptyTree(rootStr), RootId)}
    ELSE {EmptyTree(rootStr)}

(***************************************************************************)
(* TypeScriptASTTransformer: the import declarations of a source file.     *)
(* A source file is the sequence of its statements.  An import declaration *)
(* holds its default name ("" when it has none), the kind of its named     *)
(* bindings, the import specifiers and the text of its module specifier;   *)
(* a parsed module specifier carries its quotes, one made by the factory   *)
(* holds the bare module path until the file is printed and parsed again.  *)
(***************************************************************************)
DQUOTE == "\""
SQUOTE == "'"

\* Util.trimQuotes: str.replace(/^(["'])(.*)\1$/, "$2")
trimQuotes(str) ==
    IF /\ Len(str) >= 2
       /\ str[1] \in {DQUOTE, SQUOTE}
       /\ str[Len(str)] = str[1]
    THEN SubSeq(str, 2, Len(str) - 1)
    ELSE str

OtherStatement ==
    [kind |-> "other", name |-> "", bindings |-> "none", elements |-> <<>>,
     moduleSpecifier |-> <<>>, synthesized |-> FALSE]

isImportDeclaration(statement) == statement.kind = "import"
isNotImportDeclaration(statement) == ~isImportDeclaration(statement)

\* createImportSpecifierWithOptionalAlias; alias = "" stands for undefined
createImportSpecifierWithOptionalAlias(identifier) ==
    [propertyName |-> IF identifier.alias # "" THEN identifier.name ELSE "",
     name |-> IF identifier.alias # "" THEN identifier.alias ELSE identifier.name]

RECURSIVE MapSpecifiers(_)
MapSpecifiers(identifiers) ==
    IF Len(identifiers) = 0 THEN <<>>
    ELSE <<createImportSpecifierWithOptionalAlias(Head(identifiers))>>
            \o MapSpecifiers(Tail(identifiers))

\* createImportDeclaration(identifiers, modulePath, isDefault)
createImportDeclaration(identifiers, modulePath, isDefault) ==
    [kind |-> "import",
     name |-> IF isDefault THEN identifiers[1].name ELSE "",
     bindings |-> IF isDefault THEN "none" ELSE "named",
     elements |-> IF isDefault THEN <<>> ELSE MapSpecifiers(identifiers),
     moduleSpecifier |-> modulePath,
     synthesized |-> TRUE]

\* the entries findImportedIdentifiers sets, in statement order
RECURSIVE ImportedEntries(_, _)
ImportedEntries(statement, elements) ==
    IF Len(elements) = 0 THEN <<>>
    ELSE LET element == Head(elements)
             identifier == IF element.propertyName # "" THEN element.propertyName
                           ELSE element.name
             alias == IF element.propertyName # "" THEN element.name ELSE ""
         IN <<[k |-> identifier,
               v |-> [identifierName |-> identifier,
                      moduleName |-> statement.moduleSpecifier,
                      alias |-> alias]]>>
               \o ImportedEntries(statement, Tail(elements))

\* findImportedIdentifiers: a Map from identifier name to its last import
RECURSIVE findImportedIdentifiers(_, _)
findImportedIdentifiers(statements, all) ==
    IF Len(statements) = 0 THEN all
    ELSE LET statement == Head(statements)
             entries == IF isImportDeclaration(statement) /\ statement.bindings = "named"
                        THEN ImportedEntries(statement, statement.elements)
                        ELSE <<>>
             SetAll[i \in 0..Len(entries)] ==
                 IF i = 0 THEN all ELSE MapSet(SetAll[i - 1], entries[i].k, entries[i].v)
         IN findImportedIdentifiers(Tail(statements), SetAll[Len(entries)])

NoImport == [identifierName |-> "", moduleName |-> <<>>, alias |-> ""]

\* a filter that lets every requested identifier through
keepsEveryIdentifier(identifier, allImportedIdentifiers, modulePath) == TRUE

\* the filter of resolveIdentifiersToImport
keepsIdentifier(identifier, allImportedIdentifiers, modulePath) ==
    LET aliasCollides ==
            \E i \in 1..Len(allImportedIdentifiers) :
                /\ allImportedIdentifiers[i].v.alias # ""
                /\ allImportedIdentifiers[i].v.alias = identifier.alias
        hasInfo == MapHas(allImportedIdentifiers, identifier.name)
        importInfo == IF hasInfo
                      THEN allImportedIdentifiers[MapIndex(allImportedIdentifiers,
                                                           identifier.name)].v
                      ELSE NoImport
        sameModule == hasInfo /\ trimQuotes(importInfo.moduleName) = trimQuotes(modulePath)
        identifierNameCollides == hasInfo /\ importInfo.identifierName = identifier.name
        identifierNameCollidesButDifferentAlias ==
            identifierNameCollides /\ importInfo.alias # identifier.alias
        identifierNameCollidesButDIfferentAliasAndModule ==
            identifierNameCollidesButDifferentAlias /\ ~sameModule
        isNewImport == ~hasInfo \/ sameModule
    IN /\ \/ ~identifierNameCollides
          \/ identifierNameCollidesButDifferentAlias
          \/ identifierNameCollidesButDIfferentAliasAndModule
       /\ ~aliasCollides
       /\ isNewImport
       /\ ~sameModule

\* resolveIdentifiersToImport(identifiers, allImportedIdentifiers, modulePath)
RECURSIVE resolveIdentifiersToImport(_, _, _)
resolveIdentifiersToImport(identifiers, allImportedIdentifiers, modulePath) ==
    IF Len(identifiers) = 0 THEN <<>>
    ELSE (IF keepsIdentifier(Head(identifiers), allImportedIdentifiers, modulePath)
          THEN <<Head(identifiers)>> ELSE <<>>)
         \o resolveIdentifiersToImport(Tail(identifiers), allImportedIdentifiers,
                                       modulePath)

\* flush: print the file and parse it again; a module specifier made by the
\* factory is printed as a double-quoted string literal
\* the members of a literal after the file is parsed again: every node has
\* its positions
parsedMembers(members) ==
    [i \in 1..Len(members) |-> [members[i] EXCEPT !.synthesized = FALSE]]
\* a flush that leaves the nodes of a literal as they are
flushStatementKeepingNodes(statement) ==
    IF statement.kind = "import" /\ statement.synthesized
    THEN [statement EXCEPT !.moduleSpecifier = <<DQUOTE>> \o @ \o <<DQUOTE>>,
                           !.synthesized = FALSE]
    ELSE statement
flushStatement(statement) ==
    IF statement.kind \in {"object", "array"}
    THEN [statement EXCEPT !.members = parsedMembers(@)]
    ELSE IF statement.synthesized
    THEN [statement EXCEPT !.moduleSpecifier = <<DQUOTE>> \o @ \o <<DQUOTE>>,
                           !.synthesized = FALSE]
    ELSE statement

flush(statements) == [i \in 1..Len(statements) |-> flushStatement(statements[i])]

\* addImportDeclaration(identifiers, modulePath, isDefault): the source file
\* it leaves
addImportDeclaration(statements, identifiers, modulePath, isDefault) ==
    LET allImportedIdentifiers == findImportedIdentifiers(statements, <<>>)
        identifiersToImport ==
            resolveIdentifiersToImport(identifiers, allImportedIdentifiers, modulePath)
        matching == {i \in 1..Len(statements) :
                        /\ isImportDeclaration(statements[i])
                        /\ trimQuotes(statements[i].moduleSpecifier)
                              = trimQuotes(modulePath)}
        first == IF matching = {} THEN 0 ELSE SetMin(matching)
        importDeclarationUpdated ==
            /\ first # 0
            /\ statements[first].bindings = "named"
            /\ Len(identifiersToImport) > 0
        newStatements ==
            IF importDeclarationUpdated
            THEN [statements EXCEPT ![first].elements =
                                        @ \o MapSpecifiers(identifiersToImport)]
            ELSE statements
    IN flush(IF /\ ~importDeclarationUpdated
                /\ Len(identifiers) > 0
                /\ Len(identifiersToImport) > 0
             THEN SelectSeq(statements, isImportDeclaration)
                     \o <<createImportDeclaration(identifiers, modulePath, isDefault)>>
                     \o SelectSeq(statements, isNotImportDeclaration)
             ELSE newStatements)

(***************************************************************************)
(* TypeScriptASTTransformer: object and array literals.  A statement       *)
(* `const x = { ... }` or `const x = [ ... ]` holds the name of its        *)
(* variable and the members of the literal; a member holds its key (none   *)
(* for an array element), the text of its value, and whether it was made   *)
(* by the factory and has no source positions (pos < 0, end < 0).  A visit *)
(* condition is the set of variables whose literal it accepts.             *)
(***************************************************************************)
LiteralStatement(kind, variable, members) ==
    [kind |-> kind, name |-> "", bindings |-> "none", elements |-> <<>>,
     moduleSpecifier |-> <<>>, synthesized |-> FALSE,
     variable |-> variable, members |-> members]

\* ts.factory.createPropertyAssignment(name, value)
createPropertyAssignment(name, value) ==
    [name |-> name, value |-> value, synthesized |-> TRUE]

\* node.properties of an object literal, node.elements of an array literal
membersOf(statement) ==
    IF statement.kind \in {"object", "array"} THEN statement.members ELSE <<>>

\* the visitor of a transformer: the literal of kind `kind` in a statement
\* that the condition accepts gets the members newMembers gives for it,
\* every other statement is kept
visitLiterals(statements, kind, visitCondition, newMembers) ==
    [i \in 1..Len(statements) |->
        IF statements[i].kind = kind /\ statements[i].variable \in visitCondition
        THEN [statements[i] EXCEPT !.members = newMembers[i]]
        ELSE statements[i]]

\* addMemberToObjectLiteral(visitCondition, propertyName, propertyValue);
\* propertyValue = "" stands for undefined, on which the call throws
addMemberToObjectLiteral(statements, visitCondition, propertyName, propertyValue) ==
    IF propertyValue = "" THEN statements
    ELSE flush(visitLiterals(statements, "object", visitCondition,
                             [i \in 1..Len(statements) |->
                                 Append(membersOf(statements[i]),
                                        createPropertyAssignment(propertyName,
                                                                 propertyValue))]))

\* a member update that does not look at the positions of the node
updateAnyProperty(property, targetMember) ==
    IF property.name = targetMember.name
    THEN [property EXCEPT !.value = targetMember.value]
    ELSE property

\* the map of updateObjectLiteralMember over node.properties
updateProperty(property, targetMember) ==
    IF property.synthesized THEN property
    ELSE IF property.name = targetMember.name
    THEN [property EXCEPT !.value = targetMember.value]
    ELSE property

\* updateObjectLiteralMember(visitCondition, targetMember)
updateObjectLiteralMember(statements, visitCondition, targetMember) ==
    flush(visitLiterals(statements, "object", visitCondition,
                        [i \in 1..Len(statements) |->
                            [j \in 1..Len(membersOf(statements[i])) |->
                                updateProperty(membersOf(statements[i])[j],
                                               targetMember)]]))

\* addMembersToArrayLiteral(visitCondition, elements, prepend)
addMembersToArrayLiteral(statements, visitCondition, elements, prepend) ==
    flush(visitLiterals(statements, "array", visitCondition,
                        [i \in 1..Len(statements) |->
                            IF prepend THEN elements \o membersOf(statements[i])
                            ELSE membersOf(statements[i]) \o elements]))

(***************************************************************************)
(* TypeScriptVFS: state                                                    *)
(***************************************************************************)
VARIABLES
    root,              \* TypeScriptVFS.root
    rootDir,           \* the object heap of the tree under _rootDir
    watchedFilesMap,   \* _watchedFilesMap: Map<FileState, string>
    disk,              \* the backing store
    sourceFile,        \* TypeScriptASTTransformer.sourceFile: its statements
    matched,           \* the list the last glob returned
    ret                \* the last call and how it ended

vars == <<root, rootDir, watchedFilesMap, disk, sourceFile, matched, ret>>

\* enum FileState
New == <<"n","e","w">>
Modified == <<"m","o","d","i","f","i","e","d">>
Deleted == <<"d","e","l","e","t","e","d">>

\* Map.get on the ledger: <<>> stands for undefined
LedgerGet(m, k) == IF MapHas(m, k) THEN m[MapIndex(m, k)].v ELSE <<>>

NoFile == [name |-> <<>>, path |-> <<>>, content |-> ""]
\* what a caller sees of a returned VirtualFile
FileView(h, id) ==
    IF id = NullId THEN NoFile
    ELSE [name |-> h.files[id].name, path |-> h.files[id].path,
          content |-> h.files[id].content]

\* the facade's mutable state: the tree, the ledger and the backing store
VFS(h, m, d) == [rootDir |-> h, watchedFilesMap |-> m, disk |-> d]

\* the outcome of a facade call: the state it leaves, whether it succeeded
\* (a non-null / true return), whether it threw, and the file it returned
Outcome(v, ok, threw, file) == [vfs |-> v, ok |-> ok, threw |-> threw, file |-> file]

\* TypeScriptVFS.findFile / findDirectory / fileExists / directoryExists / readFile
vfsFindFile(h, filePath) == findFile(h, RootId, filePath)
findDirectory(h, dirPath) == findSubDirectory(h, RootId, dirPath)
fileExists(h, filePath) == vfsFindFile(h, filePath) # NullId
directoryExists(h, dirPath) == findDirectory(h, dirPath) # NullId
readFile(h, filePath) ==
    IF fileExists(h, filePath) THEN h.files[vfsFindFile(h, filePath)].content ELSE ""

(***************************************************************************)
(* TypeScriptVFS: operations, as functions from the state before the call  *)
(* to the outcome of the call.  The heap is garbage-collected when the     *)
(* call returns.                                                           *)
(***************************************************************************)
\* createFile(name, content)
createFile(v, name, content) ==
    LET a == addFile(v.rootDir, RootId, name, content)
    IN Outcome(VFS(Collect(a.h),
                   IF a.threw THEN v.watchedFilesMap
                   ELSE MapSet(v.watchedFilesMap, New, a.h.files[a.id].path),
                   v.disk),
               ~a.threw, a.threw, FileView(a.h, a.id))

\* writeFile(filePath, content)
\* a writeFile that creates the file it does not find
writeFileCreating(v, filePath, content) == createFile(v, filePath, content)
writeFile(v, filePath, content) ==
    LET file == vfsFindFile(v.rootDir, filePath)
    IN IF file # NullId
       THEN LET h1 == [v.rootDir EXCEPT !.files[file].content = content]
            IN Outcome(VFS(h1, MapSet(v.watchedFilesMap, Modified, h1.files[file].path),
                           v.disk),
                       TRUE, FALSE, FileView(h1, file))
       ELSE Outcome(v, FALSE, FALSE, NoFile)

\* copyFile(filePath, targetDirPath, newFileName); newFileName = <<>> is undefined
vfsCopyFile(v, filePath, targetDirPath, newFileName) ==
    LET file == vfsFindFile(v.rootDir, filePath)
        target == findDirectory(v.rootDir, targetDirPath)
    IN IF Len(targetDirPath) = 0 \/ file = NullId \/ target = NullId
       THEN Outcome(v, FALSE, FALSE, NoFile)
       ELSE LET c == copyFile(v.rootDir, v.rootDir.files[file].parentDir,
                              file, target, newFileName)
            IN Outcome(VFS(Collect(c.h), v.watchedFilesMap, v.disk),
                       TRUE, FALSE, FileView(c.h, c.id))

\* moveFile(filePath, targetDirPath, newFileName); newFileName = <<>> is undefined
vfsMoveFile(v, filePath, targetDirPath, newFileName) ==
    LET file == vfsFindFile(v.rootDir, filePath)
        target == findDirectory(v.rootDir, targetDirPath)
    IN IF Len(targetDirPath) = 0 \/ file = NullId \/ target = NullId
       THEN Outcome(v, FALSE, FALSE, NoFile)
       ELSE LET m == moveFile(v.rootDir, v.rootDir.files[file].parentDir,
                              file, target, newFileName)
            IN Outcome(VFS(Collect(m.h), v.watchedFilesMap, v.disk),
                       m.id # NullId, FALSE, FileView(m.h, m.id))

\* the key deleteFile looks up: the first ledger key contained in filePath
deleteKey(m, filePath) ==
    LET hits == {i \in 1..Len(m) : Includes(filePath, m[i].k)}
    IN IF hits = {} THEN filePath ELSE m[SetMin(hits)].k

\* deleteFile(filePath)
deleteFile(v, filePath) ==
    LET key == deleteKey(v.watchedFilesMap, filePath)
        file == vfsFindFile(v.rootDir, key)
        r == IF file # NullId
             THEN removeFile(v.rootDir, v.rootDir.files[file].parentDir, file)
             ELSE [h |-> v.rootDir, ok |-> FALSE]
    IN Outcome(VFS(Collect(r.h),
                   IF r.ok THEN MapSet(v.watchedFilesMap, Deleted, key)
                   ELSE v.watchedFilesMap,
                   v.disk),
               r.ok, FALSE, NoFile)

\* addDirectory(dirPath)
addDirectory(v, dirPath) ==
    Outcome(VFS(Collect(addSubDirectory(v.rootDir, RootId, dirPath).h),
                v.watchedFilesMap, v.disk),
            TRUE, FALSE, NoFile)

\* removeDirectory(dirPath, force)
removeDirectory(v, dirPath, force) ==
    LET r == removeSubDirectory(v.rootDir, RootId, dirPath, force)
    IN Outcome(VFS(Collect(r.h), v.watchedFilesMap, v.disk), r.ok, FALSE, NoFile)

(***************************************************************************)
(* Commit: finalize() with no argument                                     *)
(***************************************************************************)
\* one iteration of the loop of updateFilesOnDisc, on ledger entry kvp
replayDeleted(d, hasFile, filePath) ==
    IF hasFile \/ existsSync(d, filePath)
    THEN rmSync(d, PosixNormalize(filePath))
    ELSE [d |-> d, threw |-> FALSE]

writeIfFile(made, hasFile, filePath, content) ==
    IF made.threw \/ ~hasFile THEN made
    ELSE writeFileSync(made.d, filePath, content)

replayWritten(d, hasFile, dir, filePath, content) ==
    writeIfFile(IF ~existsSync(d, dir) THEN mkdirSync(d, dir)
                ELSE [d |-> d, threw |-> FALSE],
                hasFile, filePath, content)

\* dir and the path written or removed, for the file the entry's path finds
replayFound(d, h, rootStr, kvp, file) ==
    IF kvp.k = New \/ kvp.k = Modified
    THEN replayWritten(d, file # NullId,
                       PosixJoin(rootStr,
                                 IF file # NullId /\ LastIndexOf(h.files[file].path,
                                                                 FORWARD_SLASH_TOKEN) > 0
                                 THEN SubstringTo(h.files[file].path,
                                                  LastIndexOf(h.files[file].path,
                                                              FORWARD_SLASH_TOKEN))
                                 ELSE kvp.v),
                       PosixJoin(rootStr, IF file # NullId THEN h.files[file].path
                                          ELSE kvp.v),
                       IF file # NullId THEN h.files[file].content ELSE "")
    ELSE replayDeleted(d, file # NullId,
                       PosixJoin(rootStr, IF file # NullId THEN h.files[file].path
                                          ELSE kvp.v))

\* one iteration of the for loop of updateFilesOnDisc
replayEntry(d, h, rootStr, kvp) ==
    replayFound(d, h, rootStr, kvp, findFile(h, RootId, kvp.v))

\* the for loop of updateFilesOnDisc; stops at the first entry that throws
RECURSIVE replayLedger(_, _, _, _)
replayRest(r, h, rootStr, rest) ==
    IF r.threw THEN r ELSE replayLedger(r.d, h, rootStr, rest)
replayLedger(d, h, rootStr, entries) ==
    IF Len(entries) = 0 THEN [d |-> d, threw |-> FALSE]
    ELSE replayRest(replayEntry(d, h, rootStr, Head(entries)), h, rootStr,
                    Tail(entries))

\* updateFilesOnDisc: the ledger is cleared when the loop completes
\* a commit that leaves the ledger as it is
replayedKeepingLedger(v, r) ==
    Outcome(VFS(v.rootDir, v.watchedFilesMap, r.d), ~r.threw, r.threw, NoFile)
replayed(v, r) ==
    Outcome(VFS(v.rootDir, IF r.threw THEN v.watchedFilesMap ELSE <<>>, r.d),
            ~r.threw, r.threw, NoFile)
updateFilesOnDisc(v, rootStr) ==
    replayed(v, replayLedger(v.disk, v.rootDir, rootStr, v.watchedFilesMap))

\* finalize()
finalize(v, rootStr) ==
    IF rootStr # <<FORWARD_SLASH_TOKEN>>
    THEN updateFilesOnDisc(v, rootStr)
    ELSE Outcome(v, TRUE, FALSE, NoFile)

\* writeDirToFS: the subdirectories first, each made and then filled, then
\* the files of the directory; the first call that throws ends the walk
RECURSIVE writeFiles(_, _, _, _)
writeFiles(r, h, normalizedOutPath, files) ==
    IF r.threw \/ Len(files) = 0 THEN r
    ELSE writeFiles(writeFileSync(r.d,
                                  PosixJoin(normalizedOutPath,
                                            h.files[Head(files).v].name),
                                  h.files[Head(files).v].content),
                    h, normalizedOutPath, Tail(files))

RECURSIVE writeSubDirs(_, _, _, _)
writeDirToFS(r, h, normalizedOutPath, dir) ==
    writeFiles(writeSubDirs(r, h, normalizedOutPath, h.dirs[dir].subDirs),
               h, normalizedOutPath, h.dirs[dir].files)
writeSubDir(d, h, subDirPath, subdir) ==
    writeDirToFS(mkdirSync(d, subDirPath), h, subDirPath, subdir)
writeSubDirs(r, h, normalizedOutPath, subDirs) ==
    IF r.threw \/ Len(subDirs) = 0 THEN r
    ELSE writeSubDirs(writeSubDir(r.d, h,
                                  PosixJoin(normalizedOutPath,
                                            h.dirs[Head(subDirs).v].name),
                                  Head(subDirs).v),
                      h, normalizedOutPath, Tail(subDirs))

\* finalize(outPath): the tree is written below outPath/<root name>, the
\* ledger is neither read nor cleared; an empty outPath is finalize()
\* a dump that empties the ledger as a commit does
dumpedClearingLedger(v, r) ==
    Outcome(VFS(v.rootDir, <<>>, r.d), ~r.threw, r.threw, NoFile)
dumped(v, r) ==
    Outcome(VFS(v.rootDir, v.watchedFilesMap, r.d), ~r.threw, r.threw, NoFile)
dumpTo(v, rootDirPath) ==
    dumped(v, writeDirToFS(mkdirSync(v.disk, rootDirPath), v.rootDir,
                           rootDirPath, RootId))
finalizeTo(v, rootStr, outPath) ==
    IF Len(outPath) = 0 THEN finalize(v, rootStr)
    ELSE dumpTo(v, PosixNormalize(PosixJoin(outPath, v.rootDir.dirs[RootId].name)))

\* what the caller of finalize catches: the low-level error of the failing
\* fs call, or the error made by the catch around updateFilesOnDisc
NoError == "none"
CommitError == "Could not apply virtual file system changes to root"
IOError == "fs error"
finalizeError(v, rootStr, outPath) ==
    IF ~finalizeTo(v, rootStr, outPath).threw THEN NoError
    ELSE IF Len(outPath) = 0 THEN CommitError ELSE IOError

\* clear(): the outcomes it can have, one for each order in which the root
\* is read back; the ledger is not touched, and a root that cannot be read
\* makes the call throw before _rootDir is assigned
clear(v, rootStr) ==
    IF isDirectory(v.disk, rootStr)
    THEN {Outcome(VFS(Collect(h), v.watchedFilesMap, v.disk), TRUE, FALSE, NoFile) :
             h \in loadPhysicalDirectoryToVirtual(v.disk, rootStr,
                                                  EmptyTree(rootStr), RootId)}
    ELSE {Outcome(v, FALSE, TRUE, NoFile)}

(***************************************************************************)
(* glob: the pattern is rewritten into the source of a regular expression, *)
(* which is tested against the paths of the supported files                *)
(***************************************************************************)
BACKSLASH == "\\"
STAR == "*"
SUPPORTED_EXTENSIONS ==
    {<<".","t","s">>, <<".","t","s","x">>, <<".","d",".","t","s">>,
     <<".","c","t","s">>, <<".","d",".","c","t","s">>,
     <<".","m","t","s">>, <<".","d",".","m","t","s">>}

\* the characters of /([.+^$(){}|[\]\\])/
RegExpSpecials == {".", "+", "^", "$", "(", ")", "{", "}", "|", "[", "]", BACKSLASH}

\* glob.replace(/([.+^$(){}|[\]\\])/g, '\\$&')
RECURSIVE escapeSpecials(_)
escapeSpecials(glob) ==
    IF Len(glob) = 0 THEN <<>>
    ELSE (IF Head(glob) \in RegExpSpecials THEN <<BACKSLASH, Head(glob)>>
          ELSE <<Head(glob)>>) \o escapeSpecials(Tail(glob))

\* s.replace(/k/g, to) for a literal k: left to right, without overlap
RECURSIVE ReplaceAll(_, _, _)
ReplaceAll(s, k, to) ==
    IF Len(s) = 0 THEN <<>>
    ELSE IF StartsWith(s, k) THEN to \o ReplaceAll(SubSeq(s, Len(k) + 1, Len(s)), k, to)
    ELSE <<Head(s)>> \o ReplaceAll(Tail(s), k, to)

AnyRun == <<".", STAR>>
NotSlash == <<"[", "^", "/", "]">>

\* the source of the expression globToRegExp builds, without its anchor
globBody(glob) ==
    ReplaceAll(ReplaceAll(escapeSpecials(glob), <<STAR, STAR>>, AnyRun),
               <<FORWARD_SLASH_TOKEN, STAR>>,
               <<FORWARD_SLASH_TOKEN>> \o NotSlash \o <<STAR>>)

\* inputPath.replace(/^\/+|\/+$/g, '')
RECURSIVE stripLeading(_)
stripLeading(p) ==
    IF Len(p) > 0 /\ Head(p) = FORWARD_SLASH_TOKEN THEN stripLeading(Tail(p)) ELSE p
RECURSIVE stripTrailing(_)
stripTrailing(p) ==
    IF Len(p) > 0 /\ p[Len(p)] = FORWARD_SLASH_TOKEN THEN stripTrailing(Front(p)) ELSE p
removeSlashes(inputPath) == stripTrailing(stripLeading(inputPath))

\* The expression is read as a sequence of atoms: an escaped or plain
\* character, `.` or `[^/]`, each with or without a following `*`
AtomLen(r) ==
    IF Head(r) = BACKSLASH /\ Len(r) > 1 THEN 2
    ELSE IF StartsWith(r, NotSlash) THEN 4 ELSE 1
AtomOf(r) ==
    IF Head(r) = BACKSLASH /\ Len(r) > 1 THEN [kind |-> "char", ch |-> r[2]]
    ELSE IF StartsWith(r, NotSlash) THEN [kind |-> "notSlash", ch |-> FORWARD_SLASH_TOKEN]
    ELSE IF Head(r) = DOT_TOKEN THEN [kind |-> "any", ch |-> DOT_TOKEN]
    ELSE [kind |-> "char", ch |-> Head(r)]
Starred(r, n) == Len(r) > n /\ r[n + 1] = STAR
RECURSIVE Atoms(_)
AtomsFrom(r, n) ==
    <<[atom |-> AtomOf(r), star |-> Starred(r, n)]>>
        \o Atoms(SubSeq(r, n + (IF Starred(r, n) THEN 2 ELSE 1), Len(r)))
Atoms(r) == IF Len(r) = 0 THEN <<>> ELSE AtomsFrom(r, AtomLen(r))

AtomMatches(atom, c) ==
    IF atom.kind = "any" THEN TRUE
    ELSE IF atom.kind = "notSlash" THEN c # FORWARD_SLASH_TOKEN
    ELSE c = atom.ch

\* the atoms match a prefix of s that starts at position i (the expression
\* has no anchor at its end)
RECURSIVE MatchAt(_, _, _)
MatchAt(atoms, s, i) ==
    IF Len(atoms) = 0 THEN TRUE
    ELSE IF Head(atoms).star
    THEN \/ MatchAt(Tail(atoms), s, i)
         \/ (i <= Len(s) /\ AtomMatches(Head(atoms).atom, s[i]) /\ MatchAt(atoms, s, i + 1))
    ELSE i <= Len(s) /\ AtomMatches(Head(atoms).atom, s[i]) /\ MatchAt(Tail(atoms), s, i + 1)

\* where a match may start: `^` for a pattern with a leading separator,
\* `(^|/)` otherwise; a body that begins with `*` repeats that group, which
\* then matches the empty string anywhere
MatchStarts(glob, body, s) ==
    IF StartsWith(glob, <<FORWARD_SLASH_TOKEN>>) THEN {1}
    ELSE IF StartsWith(body, <<STAR>>) THEN 1..(Len(s) + 1)
    ELSE {1} \cup {i + 1 : i \in {j \in 1..Len(s) : s[j] = FORWARD_SLASH_TOKEN}}

\* globToRegExp(pattern).test(filePath)
regExpTest(glob, body, filePath) ==
    \E i \in MatchStarts(glob, body, filePath) :
        MatchAt(Atoms(IF ~StartsWith(glob, <<FORWARD_SLASH_TOKEN>>)
                         /\ StartsWith(body, <<STAR>>)
                      THEN Tail(body) ELSE body),
                filePath, i)
globTest(glob, filePath) == regExpTest(glob, globBody(glob), filePath)

\* convertToFsMap: the keys of the map, the subdirectories before the files
RECURSIVE fsMapOfDirs(_, _, _), fsMapFiles(_, _, _)
fsMapFiles(h, files, fsMap) ==
    IF Len(files) = 0 THEN fsMap
    ELSE fsMapFiles(h, Tail(files),
                    IF (<<DOT_TOKEN>> \o h.files[Head(files).v].extension)
                           \in SUPPORTED_EXTENSIONS
                    THEN MapSet(fsMap, h.files[Head(files).v].path,
                                h.files[Head(files).v].content)
                    ELSE fsMap)
convertToFsMap(h, dir, fsMap) ==
    fsMapFiles(h, h.dirs[dir].files, fsMapOfDirs(h, h.dirs[dir].subDirs, fsMap))
fsMapOfDirs(h, subDirs, fsMap) ==
    IF Len(subDirs) = 0 THEN fsMap
    ELSE fsMapOfDirs(h, Tail(subDirs), convertToFsMap(h, Head(subDirs).v, fsMap))

\* entries.sort((a, b) => a.length - b.length): a stable sort by length
RECURSIVE InsertByLength(_, _)
InsertByLength(sorted, e) ==
    IF Len(sorted) = 0 THEN <<e>>
    ELSE IF Len(sorted[Len(sorted)]) <= Len(e) THEN Append(sorted, e)
    ELSE Append(InsertByLength(Front(sorted), e), sorted[Len(sorted)])
\* a glob that returns the entries in the order of the map
KeepOrder(es) == es
RECURSIVE SortByLength(_)
SortByLength(es) ==
    IF Len(es) = 0 THEN <<>>
    ELSE InsertByLength(SortByLength(Front(es)), es[Len(es)])

\* the path glob tests and returns for an entry of the map
globPath(pattern, key) ==
    IF StartsWith(pattern, <<FORWARD_SLASH_TOKEN>>) THEN key ELSE removeSlashes(key)

\* the loop of glob over the entries of the map
RECURSIVE globEntries(_, _)
globEntries(pattern, keys) ==
    IF Len(keys) = 0 THEN <<>>
    ELSE (IF globTest(pattern, globPath(pattern, Head(keys)))
          THEN <<globPath(pattern, Head(keys))>> ELSE <<>>)
         \o globEntries(pattern, Tail(keys))

\* glob(pattern), on the tree as it is
glob(h, pattern) ==
    SortByLength(globEntries(pattern, MapKeys(convertToFsMap(h, RootId, <<>>))))

(***************************************************************************)
(* Bounds and inputs                                                       *)
(***************************************************************************)
SLASH == <<"/">>
RootR == <<"r">>
DirD == <<"d">>
NameT == <<"t", ".", "s">>
NameT1 == <<"t", "(", "1", ")", ".", "s">>
NameTD == <<"t", ".", "d", ".", "s">>
NameNew == <<"n", "e", "w", ".", "s">>
NameNJ == <<"n", ".", "j">>
InDirD(name) == DirD \o SLASH \o name

\* backing stores the facade is constructed on
NoDisk == [dirs |-> {}, files |-> <<>>]
FixtureDisk ==
    [dirs |-> {RootR, RootR \o SLASH \o DirD},
     files |-> [q \in {RootR \o SLASH \o InDirD(NameT)} |-> "c0"]]

Roots == {SLASH, RootR}
DiskImages(rootStr) == IF rootStr = SLASH THEN {NoDisk} ELSE {FixtureDisk}

\* inputs of the calls
FilePaths == {InDirD(NameT), InDirD(NameNew)}
Contents == {"c1"}

FileCount == Len(rootDir.files)

\* the state the next call starts from
Now == VFS(rootDir, watchedFilesMap, disk)

\* a call is made: the state becomes the one it leaves
Does(op, o) ==
    /\ rootDir' = o.vfs.rootDir
    /\ watchedFilesMap' = o.vfs.watchedFilesMap
    /\ disk' = o.vfs.disk
    /\ ret' = [op |-> op, ok |-> o.ok, threw |-> o.threw]
    /\ UNCHANGED <<root, sourceFile, matched>>

CreateFile(name, content) == Does("createFile", createFile(Now, name, content))
WriteFile(filePath, content) == Does("writeFile", writeFile(Now, filePath, content))
DeleteFile(filePath) == Does("deleteFile", deleteFile(Now, filePath))
CopyFile(filePath, targetDirPath, newFileName) ==
    Does("copyFile", vfsCopyFile(Now, filePath, targetDirPath, newFileName))
MoveFile(filePath, targetDirPath, newFileName) ==
    Does("moveFile", vfsMoveFile(Now, filePath, targetDirPath, newFileName))
AddDirectory(dirPath) == Does("addDirectory", addDirectory(Now, dirPath))
RemoveDirectory(dirPath, force) ==
    Does("removeDirectory", removeDirectory(Now, dirPath, force))
Finalize == Does("finalize", finalize(Now, root))
Clear == \E o \in clear(Now, root) : Does("clear", o)
FinalizeTo(outPath) == Does("finalize", finalizeTo(Now, root, outPath))

Init ==
    /\ root \in Roots
    /\ disk \in DiskImages(root)
    /\ rootDir \in LoadedTrees(disk, root)
    /\ watchedFilesMap = <<>>
    /\ sourceFile = <<>>
    /\ matched = <<>>
    /\ ret = [op |-> "new", ok |-> TRUE, threw |-> FALSE]

Next ==
    \/ \E p \in FilePaths, c \in Contents : CreateFile(p, c)
    \/ \E p \in FilePaths, c \in Contents : WriteFile(p, c)
    \/ \E p \in FilePaths : DeleteFile(p)
    \/ AddDirectory(DirD)
    \/ \E f \in BOOLEAN : RemoveDirectory(DirD, f)
    \/ Finalize
    \/ Clear

Spec == Init /\ [][Next]_vars

(***************************************************************************)
(* Properties of the ledger and the commit                                *)
(***************************************************************************)
\* is there a file at p (relative to the backing root) on the store d
OnStore(d, rootStr, p) == isFile(d, PosixJoin(rootStr, p))
StoredContent(d, rootStr, p) == d.files[Resolve(PosixJoin(rootStr, p))]

\* a createFile or writeFile call of a batch
BatchCall(v, op, p, c) ==
    IF op = "createFile" THEN createFile(v, p, c) ELSE writeFile(v, p, c)

\* C1: from the start of a batch on a real backing root, two successful
\* createFile / writeFile calls on distinct paths followed by finalize()
\* leave both files on the store with their in-memory content.
C1_BatchedFilesAllCommitted ==
    (root # SLASH /\ watchedFilesMap = <<>>) =>
        \A p1 \in FilePaths : \A p2 \in FilePaths \ {p1} :
        \A op1 \in {"createFile", "writeFile"} : \A op2 \in {"createFile", "writeFile"} :
        \A c \in Contents :
            LET o1 == BatchCall(Now, op1, p1, c)
                o2 == BatchCall(o1.vfs, op2, p2, c)
                f == finalize(o2.vfs, root)
            IN (o1.ok /\ o2.ok) =>
                  \A p \in {p1, p2} :
                      /\ OnStore(f.vfs.disk, root, p)
                      /\ StoredContent(f.vfs.disk, root, p) = readFile(o2.vfs.rootDir, p)

\* C2: for a file of the tree that is on the backing store, writeFile(p, c),
\* then deleteFile(p), then finalize() leave no file at p on the store.
C2_DeleteWinsOverWrite ==
    root # SLASH =>
        \A p \in FilePaths : \A c \in Contents :
            (OnStore(disk, root, p) /\ fileExists(rootDir, p)) =>
                LET w == writeFile(Now, p, c)
                    x == deleteFile(w.vfs, p)
                    f == finalize(x.vfs, root)
                IN ~OnStore(f.vfs.disk, root, p)

\* C6: deleteFile(p) returns true and leaves no file at p whenever a file
\* exists at p, and returns false when none exists, whatever the ledger holds.
C6_DeleteFileRemovesExisting ==
    \A p \in FilePaths :
        LET o == deleteFile(Now, p)
        IN IF fileExists(rootDir, p)
           THEN o.ok /\ ~fileExists(o.vfs.rootDir, p)
           ELSE ~o.ok

(***************************************************************************)
(* The tree operations on a store that holds the same file name in two     *)
(* directories: moves, copies and deletions, with and without a new name   *)
(***************************************************************************)
\* at most this many files in the tree under SpecTree
MaxTreeFiles == 3

TreeDisk ==
    [dirs |-> {RootR, RootR \o SLASH \o DirD},
     files |-> [q \in {RootR \o SLASH \o NameT, RootR \o SLASH \o InDirD(NameT)} |->
                  IF q = RootR \o SLASH \o NameT THEN "c0" ELSE "c1"]]

TreeSources == {NameT, NameT1, InDirD(NameT)}
TreeTargets == {SLASH, DirD}
TreeNewNames == {<<>>, NameNJ, NameTD}

InitTree ==
    /\ root = RootR
    /\ disk = TreeDisk
    /\ rootDir \in LoadedTrees(disk, root)
    /\ watchedFilesMap = <<>>
    /\ sourceFile = <<>>
    /\ matched = <<>>
    /\ ret = [op |-> "new", ok |-> TRUE, threw |-> FALSE]

NextTree ==
    \/ \E p \in TreeSources, t \in TreeTargets, n \in TreeNewNames :
          FileCount < MaxTreeFiles /\ CopyFile(p, t, n)
    \/ \E p \in TreeSources, t \in TreeTargets, n \in TreeNewNames : MoveFile(p, t, n)

SpecTree == InitTree /\ [][NextTree]_vars

(***************************************************************************)
(* Properties of moving and copying                                       *)
(***************************************************************************)
\* every file of the tree: its directory, the key it is filed under, its
\* name and its content
TreeListing(h) ==
    {[dir |-> h.dirs[d].path, key |-> h.dirs[d].files[i].k,
      name |-> h.files[h.dirs[d].files[i].v].name,
      content |-> h.files[h.dirs[d].files[i].v].content] :
        <<d, i>> \in {x \in (DOMAIN h.dirs) \X (1..Len(h.files)) :
                         x[2] <= Len(h.dirs[x[1]].files)}}

FilePathIn(dirPath, name) == PosixJoin(dirPath \o <<FORWARD_SLASH_TOKEN>>, name)

\* C3: a successful copyFile or moveFile records the path of the file it
\* made in the ledger, and the finalize() that follows puts that file on the
\* backing store with its content (and, for a move, removes the source).
C3_MoveAndCopyAreLedgered ==
    root # SLASH =>
        \A p \in TreeSources : \A t \in TreeTargets :
            LET c == vfsCopyFile(Now, p, t, <<>>)
                m == vfsMoveFile(Now, p, t, <<>>)
                fc == finalize(c.vfs, root)
                fm == finalize(m.vfs, root)
            IN /\ c.ok =>
                    /\ \E i \in 1..Len(c.vfs.watchedFilesMap) :
                           c.vfs.watchedFilesMap[i].v = c.file.path
                    /\ fc.ok => /\ OnStore(fc.vfs.disk, root, c.file.path)
                                /\ StoredContent(fc.vfs.disk, root, c.file.path)
                                     = c.file.content
               /\ m.ok =>
                    /\ \E i \in 1..Len(m.vfs.watchedFilesMap) :
                           m.vfs.watchedFilesMap[i].v = m.file.path
                    /\ fm.ok => /\ OnStore(fm.vfs.disk, root, m.file.path)
                                /\ StoredContent(fm.vfs.disk, root, m.file.path)
                                     = m.file.content

\* C7: after a successful moveFile(src, dir, newName?) no file remains at
\* src unless the destination is src itself; exactly one file is at
\* dir/(newName or the original name), it has the moved file's content and
\* it replaces whatever file held that name in dir; no other file changes
C7_MoveFilePlacesExactlyOne ==
    \A p \in TreeSources, t \in TreeTargets, n \in TreeNewNames :
        LET o == vfsMoveFile(Now, p, t, n)
        IN o.ok =>
           LET src == rootDir.files[vfsFindFile(rootDir, p)]
               srcDir == rootDir.dirs[src.parentDir].path
               dstDir == rootDir.dirs[findDirectory(rootDir, t)].path
               name == IF Len(n) > 0 THEN n ELSE src.name
               after == o.vfs.rootDir
           IN /\ (srcDir = dstDir /\ name = src.name) \/ ~fileExists(after, p)
              /\ fileExists(after, FilePathIn(t, name))
              /\ readFile(after, FilePathIn(t, name)) = src.content
              /\ o.file.name = name
              /\ TreeListing(after) =
                    {e \in TreeListing(rootDir) :
                        /\ ~(e.dir = srcDir /\ e.key = src.name)
                        /\ ~(e.dir = dstDir /\ e.key = name)}
                    \cup {[dir |-> dstDir, key |-> name, name |-> name,
                           content |-> src.content]}

\* a move has replaced the file of the same name in the root directory
C7_MoveReplacedFile ==
    /\ ret.op = "moveFile" /\ ret.ok
    /\ ~fileExists(rootDir, InDirD(NameT))
    /\ fileExists(rootDir, NameT) /\ readFile(rootDir, NameT) = "c1"
    /\ FileCount = 1

\* C8: copyFile never overwrites or deletes: after a successful copyFile
\* every file the tree held is still there with the same name and content
\* (the source and the files of the target among them), and the target holds
\* exactly one more file, whose content is the source's
C8_CopyFileOnlyAdds ==
    \A p \in TreeSources, t \in TreeTargets, n \in TreeNewNames :
        LET o == vfsCopyFile(Now, p, t, n)
        IN o.ok =>
           LET src == rootDir.files[vfsFindFile(rootDir, p)]
               dstDir == rootDir.dirs[findDirectory(rootDir, t)].path
               after == o.vfs.rootDir
               added == [dir |-> dstDir, key |-> o.file.name, name |-> o.file.name,
                         content |-> src.content]
           IN /\ \A e \in TreeListing(rootDir) :
                    ~(e.dir = dstDir /\ e.key = o.file.name)
              /\ TreeListing(after) = TreeListing(rootDir) \cup {added}
              /\ fileExists(after, p) /\ readFile(after, p) = src.content

\* a copy into a directory that held the name has left both files there
C8_CollidingCopyKeptBoth ==
    /\ ret.op = "copyFile" /\ ret.ok
    /\ fileExists(rootDir, NameT) /\ readFile(rootDir, NameT) = "c0"
    /\ fileExists(rootDir, NameT1) /\ readFile(rootDir, NameT1) = "c0"

\* the requested name without its extension and without a trailing (k)
RequestedBase(name) ==
    LET dot == LastIndexOf(name, DOT_TOKEN)
        stem == IF dot >= 0 THEN SubstringTo(name, dot) ELSE name
        opens == {i \in 1..Len(stem) : stem[i] = "("}
        open == IF opens = {} THEN 0 ELSE SetMax(opens)
    IN IF /\ open > 0 /\ Len(stem) > open + 1 /\ stem[Len(stem)] = ")"
          /\ \A i \in (open + 1)..(Len(stem) - 1) : stem[i] \in Digits
       THEN SubstringTo(stem, open - 1)
       ELSE stem

\* base(n).ext for the smallest n >= 1 that is free in the target
SmallestFreeNumbered(h, target, requested) ==
    LET candidate(k) == RequestedBase(requested) \o <<"(">> \o NumToStr(k)
                           \o <<")", DOT_TOKEN>> \o getExtension(requested)
        free == {k \in 1..(Len(h.files) + 1) :
                    ~MapHas(h.dirs[target].files, candidate(k))}
    IN candidate(SetMin(free))

\* C9: when the name requested for a copy (of a file with the same
\* extension) collides in the target, the copy is named base(n).ext with
\* base the requested name less its extension and trailing (k), and n the
\* smallest integer >= 1 that is free in the target
C9_CollidingCopyIsNumbered ==
    \A p \in TreeSources, t \in TreeTargets, n \in TreeNewNames :
        LET o == vfsCopyFile(Now, p, t, n)
        IN o.ok =>
           LET src == rootDir.files[vfsFindFile(rootDir, p)]
               target == findDirectory(rootDir, t)
               requested == IF Len(n) > 0 THEN n ELSE src.name
           IN (/\ MapHas(rootDir.dirs[target].files, requested)
               /\ getExtension(requested) = src.extension)
                 => o.file.name = SmallestFreeNumbered(rootDir, target, requested)

\* C10: copyFile with an explicit newName stores the copy under exactly
\* newName when it is free in the target; when it collides the copy's name
\* is newName with (n) inserted before newName's own extension
C10_NewNameKeepsItsExtension ==
    \A p \in TreeSources, t \in TreeTargets, n \in TreeNewNames \ {<<>>} :
        LET o == vfsCopyFile(Now, p, t, n)
        IN o.ok =>
           LET target == findDirectory(rootDir, t)
           IN o.file.name = IF MapHas(rootDir.dirs[target].files, n)
                            THEN SmallestFreeNumbered(rootDir, target, n)
                            ELSE n

(***************************************************************************)
(* The transformer on source files that already import an identifier       *)
(***************************************************************************)
\* at most this many statements in the source file under SpecImports
MaxStatements == 3

ModuleM == <<"m">>
ModuleN == <<"n">>
Quoted(q, modulePath) == <<q>> \o modulePath \o <<q>>

NamedImport(elements, moduleText) ==
    [kind |-> "import", name |-> "", bindings |-> "named", elements |-> elements,
     moduleSpecifier |-> moduleText, synthesized |-> FALSE]

\* import { mock } from "m";  and  import { mock as a1 } from 'm';
ImportMock == NamedImport(<<[propertyName |-> "", name |-> "mock"]>>,
                          Quoted(DQUOTE, ModuleM))
ImportMockAliased == NamedImport(<<[propertyName |-> "mock", name |-> "a1"]>>,
                                 Quoted(SQUOTE, ModuleM))
\* import d from "m";  and  import * as ns from "m";
ImportDefault == [NamedImport(<<>>, Quoted(DQUOTE, ModuleM))
                    EXCEPT !.name = "d", !.bindings = "none"]
ImportNamespace == [NamedImport(<<>>, Quoted(DQUOTE, ModuleM))
                      EXCEPT !.bindings = "namespace"]

SourceFiles ==
    {<<>>, <<OtherStatement>>, <<ImportMock>>, <<ImportMock, OtherStatement>>,
     <<ImportMockAliased>>, <<ImportDefault>>, <<ImportNamespace, OtherStatement>>,
     <<OtherStatement, ImportMock>>}

Identifiers == [name : {"mock", "other"}, alias : {"", "a1", "a2"}]
IdentifierLists ==
    {<<>>} \cup {<<i>> : i \in Identifiers}
           \cup {<<i, j>> : <<i, j>> \in {x \in Identifiers \X Identifiers :
                                             x[1].name # x[2].name}}
ModulePaths == {ModuleM, ModuleN}

AddImportDeclaration(identifiers, modulePath, isDefault) ==
    /\ sourceFile' = addImportDeclaration(sourceFile, identifiers, modulePath, isDefault)
    /\ ret' = [op |-> "addImportDeclaration", ok |-> sourceFile' # sourceFile,
               threw |-> FALSE]
    /\ UNCHANGED <<root, rootDir, watchedFilesMap, disk, matched>>

InitImports ==
    /\ root = SLASH
    /\ disk = NoDisk
    /\ rootDir \in LoadedTrees(disk, root)
    /\ watchedFilesMap = <<>>
    /\ sourceFile \in SourceFiles
    /\ matched = <<>>
    /\ ret = [op |-> "new", ok |-> TRUE, threw |-> FALSE]

NextImports ==
    \E identifiers \in IdentifierLists, modulePath \in ModulePaths, isDefault \in BOOLEAN :
        Len(sourceFile) < MaxStatements
           /\ AddImportDeclaration(identifiers, modulePath, isDefault)

SpecImports == InitImports /\ [][NextImports]_vars

(***************************************************************************)
(* Properties of import declarations                                      *)
(***************************************************************************)
\* the name a specifier imports, and the local name it binds
ImportedName(element) ==
    IF element.propertyName # "" THEN element.propertyName ELSE element.name

\* the declarations of the file that import from modulePath
DeclarationsOf(statements, modulePath) ==
    {i \in 1..Len(statements) :
        /\ isImportDeclaration(statements[i])
        /\ trimQuotes(statements[i].moduleSpecifier) = modulePath}

\* the named declarations of the file that import the identifier name
DeclarationsImporting(statements, name) ==
    {i \in 1..Len(statements) :
        /\ isImportDeclaration(statements[i]) /\ statements[i].bindings = "named"
        /\ \E e \in 1..Len(statements[i].elements) :
              ImportedName(statements[i].elements[e]) = name}

\* no specifier and no default import of the file binds the local name
IsFreshAlias(statements, alias) ==
    /\ alias # ""
    /\ \A i \in 1..Len(statements) :
          /\ statements[i].name # alias
          /\ \A e \in 1..Len(statements[i].elements) :
                /\ statements[i].elements[e].name # alias
                /\ statements[i].elements[e].propertyName # alias

\* C4: an identifier name already imported from module M, requested again
\* from M under a new alias, extends M's declaration with one more, aliased,
\* specifier
C4_SameModuleAliasExtends ==
    \A id \in Identifiers, modulePath \in ModulePaths :
        LET decls == DeclarationsOf(sourceFile, modulePath)
        IN (/\ IsFreshAlias(sourceFile, id.alias)
            /\ decls # {}
            /\ DeclarationsImporting(sourceFile, id.name) = decls)
              => addImportDeclaration(sourceFile, <<id>>, modulePath, FALSE)
                    = [sourceFile EXCEPT ![SetMin(decls)].elements =
                          @ \o <<[propertyName |-> id.name, name |-> id.alias]>>]

\* C5: an identifier name already imported from another module, requested
\* from a module the file does not import from yet and under an alias no
\* import uses, gets a new import declaration for that module carrying the
\* aliased specifier
C5_OtherModuleAliasAddsDeclaration ==
    \A id \in Identifiers, modulePath \in ModulePaths :
        (/\ IsFreshAlias(sourceFile, id.alias)
         /\ DeclarationsImporting(sourceFile, id.name) # {}
         /\ DeclarationsOf(sourceFile, modulePath) = {})
           => LET after == addImportDeclaration(sourceFile, <<id>>, modulePath, FALSE)
              IN /\ Len(after) = Len(sourceFile) + 1
                 /\ \E i \in 1..Len(after) :
                       /\ isImportDeclaration(after[i])
                       /\ trimQuotes(after[i].moduleSpecifier) = modulePath
                       /\ after[i].elements
                             = <<[propertyName |-> id.name, name |-> id.alias]>>

(***************************************************************************)
(* Properties of clear() and of repeated commits                           *)
(***************************************************************************)
\* the files of the tree are the files the store holds under the root
TreeMirrorsStore(h, d, rootStr) ==
    /\ \A i \in 1..Len(h.files) :
          /\ OnStore(d, rootStr, h.files[i].path)
          /\ StoredContent(d, rootStr, h.files[i].path) = h.files[i].content
    /\ \A q \in DOMAIN d.files :
          \E i \in 1..Len(h.files) : Resolve(PosixJoin(rootStr, h.files[i].path)) = q

\* C11: after clear() the tree equals the content of the backing root, and
\* a finalize() issued right after it changes nothing on the backing store,
\* whatever was created, written or deleted before
C11_ClearDiscardsEdits ==
    root # SLASH =>
        \A o \in clear(Now, root) :
            ~o.threw =>
                /\ TreeMirrorsStore(o.vfs.rootDir, disk, root)
                /\ finalize(o.vfs, root).vfs.disk = disk

(***************************************************************************)
(* The dump of the tree to a destination: finalize(outPath) on the fixture *)
(* root, beside the edits and the commits that fill the ledger.            *)
(***************************************************************************)
OutO == <<"o">>
OutPaths == {OutO, PosixJoin(RootR, InDirD(NameT))}
DumpPaths == {InDirD(NameT), NameNJ}

InitDump ==
    /\ root = RootR
    /\ disk = FixtureDisk
    /\ rootDir \in LoadedTrees(disk, root)
    /\ watchedFilesMap = <<>>
    /\ sourceFile = <<>>
    /\ matched = <<>>
    /\ ret = [op |-> "new", ok |-> TRUE, threw |-> FALSE]

NextDump ==
    \/ \E p \in DumpPaths, c \in Contents : CreateFile(p, c)
    \/ \E p \in DumpPaths : DeleteFile(p)
    \/ Finalize
    \/ \E o \in OutPaths : FinalizeTo(o)

SpecDump == InitDump /\ [][NextDump]_vars

(***************************************************************************)
(* Properties of finalize(outPath)                                         *)
(***************************************************************************)
\* C12: a finalize that fails on a backing-store operation gives its caller
\* the commit-level error, in ledger-replay mode and in full-dump mode
C12_FinalizeRaisesCommitError ==
    \A outPath \in OutPaths \cup {<<>>} :
        finalizeError(Now, root, outPath) \in {NoError, CommitError}

\* the directory a dump to outPath fills
DumpRoot(h, outPath) == PosixNormalize(PosixJoin(outPath, h.dirs[RootId].name))

\* every directory and every file of tree h is below dest on store d
TreeWrittenBelow(h, d, dest) ==
    /\ \A i \in DOMAIN h.dirs : isDirectory(d, PosixJoin(dest, h.dirs[i].path))
    /\ \A i \in DOMAIN h.files :
          /\ isFile(d, PosixJoin(dest, h.files[i].path))
          /\ d.files[Resolve(PosixJoin(dest, h.files[i].path))] = h.files[i].content

\* C13: a finalize(outPath) that returns has written every directory and
\* every file of the tree below outPath/<root name>; the store it leaves is
\* the one it leaves with an empty ledger, and tree and ledger are untouched
C13_DumpWritesTheTree ==
    \A outPath \in OutPaths :
        ~finalizeTo(Now, root, outPath).threw =>
            /\ TreeWrittenBelow(rootDir, finalizeTo(Now, root, outPath).vfs.disk,
                                DumpRoot(rootDir, outPath))
            /\ finalizeTo(Now, root, outPath).vfs.disk =
                   finalizeTo(VFS(rootDir, <<>>, disk), root, outPath).vfs.disk
            /\ finalizeTo(Now, root, outPath).vfs.watchedFilesMap = watchedFilesMap
            /\ finalizeTo(Now, root, outPath).vfs.rootDir = rootDir

\* a dump has just written n.j and d/t.s below o/r while the ledger holds
\* an entry
C13_DumpedWithLedger ==
    /\ ret = [op |-> "finalize", ok |-> TRUE, threw |-> FALSE]
    /\ watchedFilesMap # <<>>
    /\ fileExists(rootDir, NameNJ) /\ fileExists(rootDir, InDirD(NameT))
    /\ isFile(disk, PosixJoin(OutO, PosixJoin(RootR, NameNJ)))
    /\ ~isFile(disk, PosixJoin(RootR, NameNJ))
    /\ TreeWrittenBelow(rootDir, disk, DumpRoot(rootDir, OutO))

\* C14: a finalize() that returns normally on a real backing root leaves
\* the ledger empty, and the finalize() repeated right after it leaves the
\* backing store as it is
C14_CommitEmptiesLedger ==
    (root # SLASH /\ ~finalize(Now, root).threw) =>
        /\ finalize(Now, root).vfs.watchedFilesMap = <<>>
        /\ finalize(finalize(Now, root).vfs, root).vfs.disk =
               finalize(Now, root).vfs.disk

\* a finalize() has just written a new file to the store of the real root
C14_CommittedNewFile ==
    /\ root = RootR
    /\ ret = [op |-> "finalize", ok |-> TRUE, threw |-> FALSE]
    /\ watchedFilesMap = <<>>
    /\ isFile(disk, PosixJoin(RootR, InDirD(NameNew)))

(***************************************************************************)
(* Properties of createFile                                                *)
(***************************************************************************)
\* paths of plain name segments: at the root, nested, with a leading
\* separator, and below a directory that has the name of the root "r"
PlainPaths ==
    {NameT, InDirD(NameT), SLASH \o InDirD(NameT), InDirD(InDirD(NameNew)),
     PosixJoin(RootR, NameT)}

\* the proper directory prefixes of a path
DirPrefixesOf(parts) ==
    {JoinParts(SubSeq(parts, 1, k)) : k \in 1..(Len(parts) - 1)}
DirPrefixes(p) == DirPrefixesOf(NonEmptyParts(Split(p)))

\* C15: after createFile(p, c) on a path of plain name segments the file
\* exists at p with content c and every proper directory prefix of p is an
\* existing directory
C15_CreatedFileResolves ==
    \A p \in PlainPaths, c \in Contents :
        /\ ~createFile(Now, p, c).threw
        /\ fileExists(createFile(Now, p, c).vfs.rootDir, p)
        /\ readFile(createFile(Now, p, c).vfs.rootDir, p) = c
        /\ \A q \in DirPrefixes(p) :
              directoryExists(createFile(Now, p, c).vfs.rootDir, q)

\* the content createFile overwrites with
NewContent == "c2"

\* C16: createFile(p, c2) on a path that holds a file leaves one file at p
\* with content c2, and the node found at p after the call is the node that
\* was there before it (createFile is rootDir.addFile followed by the ledger
\* entry; node identity is the index in the heap addFile returns)
C16_CreateFileKeepsNode ==
    \A p \in FilePaths :
        fileExists(rootDir, p) =>
            /\ readFile(createFile(Now, p, NewContent).vfs.rootDir, p) = NewContent
            /\ Len(createFile(Now, p, NewContent).vfs.rootDir.files) = FileCount
            /\ findFile(addFile(rootDir, RootId, p, NewContent).h, RootId, p) =
                   vfsFindFile(rootDir, p)
            /\ addFile(rootDir, RootId, p, NewContent).h.files[vfsFindFile(rootDir, p)].content
                   = NewContent

(***************************************************************************)
(* Properties of the directory operations                                  *)
(***************************************************************************)
DirE == <<"e">>
DirPaths == {DirD, SLASH \o DirD, InDirD(DirE)}

\* the current state, and the states with a directory or a file added two
\* levels down
Grown ==
    {Now, addDirectory(Now, InDirD(DirE)).vfs,
     createFile(Now, InDirD(InDirD(NameNew)), NewContent).vfs}

\* path is below the directory with path dirPath
Below(path, dirPath) == StartsWith(path, dirPath \o SLASH)

HoldsEntries(h, dir) == Len(h.dirs[dir].files) > 0 \/ Len(h.dirs[dir].subDirs) > 0

\* nothing of the subtree of directory dir of tree h resolves in tree g
SubtreeGone(h, dir, g) ==
    /\ \A j \in DOMAIN h.dirs :
          (j = dir \/ Below(h.dirs[j].path, h.dirs[dir].path)) =>
              ~directoryExists(g, h.dirs[j].path)
    /\ \A i \in DOMAIN h.files :
          Below(h.files[i].path, h.dirs[dir].path) => ~fileExists(g, h.files[i].path)

\* C17: removeDirectory(p) on a directory that holds a file or a directory
\* returns false and changes nothing; removeDirectory(p, true) on an
\* existing directory other than the root returns true, and p and all that
\* was below p no longer resolve
C17_RemoveDirectoryRespectsForce ==
    \A v \in Grown, p \in DirPaths :
        directoryExists(v.rootDir, p) =>
            /\ HoldsEntries(v.rootDir, findDirectory(v.rootDir, p)) =>
                  /\ ~removeDirectory(v, p, FALSE).ok
                  /\ removeDirectory(v, p, FALSE).vfs = v
            /\ removeDirectory(v, p, TRUE).ok
            /\ ~directoryExists(removeDirectory(v, p, TRUE).vfs.rootDir, p)
            /\ SubtreeGone(v.rootDir, findDirectory(v.rootDir, p),
                           removeDirectory(v, p, TRUE).vfs.rootDir)

\* a forced removeDirectory has just removed d while the ledger still names
\* a file that was created below d
C17_ForcedRemovalDone ==
    /\ ret = [op |-> "removeDirectory", ok |-> TRUE, threw |-> FALSE]
    /\ ~directoryExists(rootDir, DirD)
    /\ MapHas(watchedFilesMap, New)
    /\ Below(MapGet(watchedFilesMap, New), SLASH \o DirD)

\* C18: addDirectory(p) on a path whose directories exist returns the
\* existing directory and changes nothing, and addDirectory(p) twice leaves
\* the tree that addDirectory(p) once leaves
C18_AddDirectoryIdempotent ==
    \A v \in Grown, p \in DirPaths :
        /\ directoryExists(v.rootDir, p) =>
              /\ addSubDirectory(v.rootDir, RootId, p).h = v.rootDir
              /\ addSubDirectory(v.rootDir, RootId, p).id = findDirectory(v.rootDir, p)
              /\ addDirectory(v, p).vfs = v
        /\ addSubDirectory(addSubDirectory(v.rootDir, RootId, p).h, RootId, p) =
               addSubDirectory(v.rootDir, RootId, p)
        /\ addDirectory(addDirectory(v, p).vfs, p).vfs = addDirectory(v, p).vfs

\* addDirectory("d") has just returned on a tree in which d holds a file
C18_AddedExistingDirectory ==
    /\ ret = [op |-> "addDirectory", ok |-> TRUE, threw |-> FALSE]
    /\ directoryExists(rootDir, DirD)
    /\ fileExists(rootDir, InDirD(NameT))
    /\ fileExists(rootDir, InDirD(NameNew))

(***************************************************************************)
(* Properties of moveFile, copyFile and writeFile on degenerate arguments  *)
(***************************************************************************)
\* the paths of the directories of a tree
DirListing(h) == {h.dirs[j].path : j \in DOMAIN h.dirs}

\* C19: moveFile of a file into the directory that holds it, with no new
\* name, leaves the same files with the same names, contents and parents,
\* and returns the file with its name, path and content, not null
C19_MoveIntoOwnDirectoryIsNoOp ==
    \A i \in DOMAIN rootDir.files :
        /\ vfsMoveFile(Now, rootDir.files[i].path,
                       rootDir.dirs[rootDir.files[i].parentDir].path, <<>>).ok
        /\ vfsMoveFile(Now, rootDir.files[i].path,
                       rootDir.dirs[rootDir.files[i].parentDir].path, <<>>).file
               = FileView(rootDir, i)
        /\ TreeListing(vfsMoveFile(Now, rootDir.files[i].path,
                                   rootDir.dirs[rootDir.files[i].parentDir].path,
                                   <<>>).vfs.rootDir) = TreeListing(rootDir)
        /\ DirListing(vfsMoveFile(Now, rootDir.files[i].path,
                                  rootDir.dirs[rootDir.files[i].parentDir].path,
                                  <<>>).vfs.rootDir) = DirListing(rootDir)

\* a moveFile has returned a file, and the root directory holds t.s after
\* t(1).s while d holds its own t.s: t.s was taken out of the root
\* directory's map and put back at its end
C19_MovedWithinRoot ==
    /\ ret = [op |-> "moveFile", ok |-> TRUE, threw |-> FALSE]
    /\ MapKeys(rootDir.dirs[RootId].files) = <<NameT1, NameT>>
    /\ fileExists(rootDir, InDirD(NameT))
    /\ readFile(rootDir, InDirD(NameT)) = "c1"

\* source paths and target directories beside those of the tree
MissingSources == {NameNew, InDirD(NameNew), InDirD(InDirD(NameT))}
MissingTargets == {<<>>, DirE, InDirD(DirE)}

\* the outcome of a call that returns null and touches nothing
NullOutcome(v) == Outcome(v, FALSE, FALSE, NoFile)

\* C20: writeFile, moveFile and copyFile on a source that does not exist,
\* and moveFile and copyFile to a target directory that does not exist or
\* to an empty target path, return null without throwing and leave the tree
\* and the ledger as they were
C20_NullResultsChangeNothing ==
    /\ \A p \in TreeSources \cup MissingSources :
          ~fileExists(rootDir, p) =>
              /\ writeFile(Now, p, NewContent) = NullOutcome(Now)
              /\ \A t \in TreeTargets \cup MissingTargets, n \in TreeNewNames :
                    /\ vfsMoveFile(Now, p, t, n) = NullOutcome(Now)
                    /\ vfsCopyFile(Now, p, t, n) = NullOutcome(Now)
    /\ \A p \in TreeSources, t \in MissingTargets, n \in TreeNewNames :
          (Len(t) = 0 \/ ~directoryExists(rootDir, t)) =>
              /\ vfsMoveFile(Now, p, t, n) = NullOutcome(Now)
              /\ vfsCopyFile(Now, p, t, n) = NullOutcome(Now)

\* a moveFile of t(1).s, which the tree does not hold, has returned null
C20_MoveOfMissingFileReturnedNull ==
    /\ ret = [op |-> "moveFile", ok |-> FALSE, threw |-> FALSE]
    /\ ~fileExists(rootDir, NameT1)
    /\ fileExists(rootDir, NameT)

(***************************************************************************)
(* Properties of path resolution                                           *)
(***************************************************************************)
\* relative paths: empty, plain, dotted, and one that climbs above the root
UpD == DotDot \o SLASH \o DirD
RelativePaths ==
    {<<>>, <<".">>, DirD, NameT, InDirD(NameT), InDirD(NameNew), DirD \o SLASH,
     InDirD(DotDot) \o SLASH \o InDirD(NameT), UpD, UpD \o SLASH \o NameT}

\* C21: findFile and findDirectory answer the same for a path and for that
\* path with a leading separator: the same node, or not found for both
C21_LeadingSeparatorIsIgnored ==
    \A p \in RelativePaths :
        /\ vfsFindFile(rootDir, SLASH \o p) = vfsFindFile(rootDir, p)
        /\ findDirectory(rootDir, SLASH \o p) = findDirectory(rootDir, p)

(***************************************************************************)
(* glob on a tree that is built in memory: files two and three levels down *)
(* with supported and unsupported extensions                               *)
(***************************************************************************)
DirS == <<"s">>
DirA == <<"a">>
NameTts == <<"t", ".", "t", "s">>
NameNtsx == <<"n", ".", "t", "s", "x">>
InS(name) == DirS \o SLASH \o name
InSA(name) == DirS \o SLASH \o DirA \o SLASH \o name
GlobFiles == {InS(NameTts), InSA(NameTts), InSA(NameNtsx), InS(NameNJ)}

PatInS == InS(<<STAR>>)
PatTsInS == InS(<<STAR, ".", "t", "s">>)
PatTsBelowS == InS(<<STAR, STAR, "/", STAR, ".", "t", "s">>)
PatTsInSA == SLASH \o InSA(<<STAR, ".", "t", "s">>)
PatAnyT == <<STAR, STAR>> \o SLASH \o NameTts
Patterns == {PatInS, PatTsInS, PatTsBelowS, PatTsInSA, PatAnyT}

Glob(pattern) ==
    /\ matched' = glob(rootDir, pattern)
    /\ ret' = [op |-> "glob", ok |-> Len(matched') > 0, threw |-> FALSE]
    /\ UNCHANGED <<root, rootDir, watchedFilesMap, disk, sourceFile>>

InitGlob ==
    /\ root = SLASH
    /\ disk = NoDisk
    /\ rootDir \in LoadedTrees(disk, root)
    /\ watchedFilesMap = <<>>
    /\ sourceFile = <<>>
    /\ matched = <<>>
    /\ ret = [op |-> "new", ok |-> TRUE, threw |-> FALSE]

NextGlob ==
    \/ \E p \in GlobFiles, c \in Contents : CreateFile(p, c)
    \/ \E p \in GlobFiles : DeleteFile(p)
    \/ \E pattern \in Patterns : Glob(pattern)

SpecGlob == InitGlob /\ [][NextGlob]_vars

(***************************************************************************)
(* Properties of glob                                                      *)
(***************************************************************************)
Range(seq) == {seq[i] : i \in DOMAIN seq}

\* the pattern, read as the rule reads it, matches all of s from position i:
\* `**` stands for any characters, `*` for characters other than the
\* separator, every other character for itself
RECURSIVE RuleMatchAt(_, _, _)
RuleMatchAt(pat, s, i) ==
    IF Len(pat) = 0 THEN i = Len(s) + 1
    ELSE IF StartsWith(pat, <<STAR, STAR>>)
    THEN \E j \in i..(Len(s) + 1) : RuleMatchAt(SubSeq(pat, 3, Len(pat)), s, j)
    ELSE IF Head(pat) = STAR
    THEN \E j \in i..(Len(s) + 1) :
             /\ \A k \in i..(j - 1) : s[k] # FORWARD_SLASH_TOKEN
             /\ RuleMatchAt(Tail(pat), s, j)
    ELSE i <= Len(s) /\ s[i] = Head(pat) /\ RuleMatchAt(Tail(pat), s, i + 1)

\* a pattern without a leading separator may start at any segment
RuleMatches(pat, s) ==
    \E i \in (IF StartsWith(pat, SLASH) THEN {1}
              ELSE {1} \cup {j + 1 : j \in {k \in 1..Len(s) : s[k] = FORWARD_SLASH_TOKEN}}) :
        RuleMatchAt(pat, s, i)

SupportedFiles(h) ==
    {i \in DOMAIN h.files : (<<DOT_TOKEN>> \o h.files[i].extension) \in SUPPORTED_EXTENSIONS}

\* C22: glob(pattern) returns exactly the supported files whose path the
\* pattern matches, `**` across segments and `/*` within one segment: s/*
\* gives only files directly inside s, s/*.ts only paths that end in .ts
C22_GlobMatchesByRule ==
    /\ \A pattern \in Patterns :
          Range(glob(rootDir, pattern)) =
              {globPath(pattern, rootDir.files[i].path) :
                  i \in {j \in SupportedFiles(rootDir) :
                            RuleMatches(pattern,
                                        globPath(pattern, rootDir.files[j].path))}}
    /\ \A e \in Range(glob(rootDir, PatInS)) :
          \E i \in DOMAIN rootDir.files :
              /\ e = removeSlashes(rootDir.files[i].path)
              /\ rootDir.dirs[rootDir.files[i].parentDir].path = SLASH \o DirS
    /\ \A e \in Range(glob(rootDir, PatTsInS)) :
          SubSeq(e, Len(e) - 2, Len(e)) = <<".", "t", "s">>

PatAll == <<STAR, STAR>>

\* C23: the list glob returns holds no path twice, is ordered by
\* non-decreasing length, and is made of the tree as it is: the paths of
\* the supported files of the tree that the expression accepts, all of them
\* for the pattern **
C23_GlobListIsSortedAndCurrent ==
    \A pattern \in Patterns \cup {PatAll} :
        /\ \A i, j \in DOMAIN glob(rootDir, pattern) :
              i < j => /\ glob(rootDir, pattern)[i] # glob(rootDir, pattern)[j]
                       /\ Len(glob(rootDir, pattern)[i]) <= Len(glob(rootDir, pattern)[j])
        /\ Range(glob(rootDir, pattern)) =
              {globPath(pattern, rootDir.files[i].path) :
                  i \in {j \in SupportedFiles(rootDir) :
                            globTest(pattern, globPath(pattern, rootDir.files[j].path))}}
        /\ Range(glob(rootDir, PatAll)) =
              {removeSlashes(rootDir.files[i].path) : i \in SupportedFiles(rootDir)}

\* a glob has just returned s/t.ts before s/a/t.ts, the order opposite to
\* that of the map, on a tree from which a file was deleted
C23_GlobbedAfterDelete ==
    /\ ret = [op |-> "glob", ok |-> TRUE, threw |-> FALSE]
    /\ matched = <<InS(NameTts), InSA(NameTts)>>
    /\ MapHas(watchedFilesMap, Deleted)
    /\ ~fileExists(rootDir, InSA(NameNtsx))

(***************************************************************************)
(* Properties of repeated and of default import requests                   *)
(***************************************************************************)
\* the declaration imports name, without alias, as a named import
ImportsPlain(statement, name) ==
    /\ isImportDeclaration(statement) /\ statement.bindings = "named"
    /\ \E e \in 1..Len(statement.elements) :
          statement.elements[e] = [propertyName |-> "", name |-> name]

PlainIdentifiers == {id \in Identifiers : id.alias = ""}

\* C24: a request for an identifier without alias that a declaration of the
\* same module already imports under that name leaves the file as it is,
\* and the same named request made twice leaves the file that making it
\* once leaves
C24_RepeatedNamedImportIsNoOp ==
    \A id \in PlainIdentifiers, modulePath \in ModulePaths :
        /\ (\E i \in DeclarationsOf(sourceFile, modulePath) :
                ImportsPlain(sourceFile[i], id.name))
              => addImportDeclaration(sourceFile, <<id>>, modulePath, FALSE) = sourceFile
        /\ addImportDeclaration(addImportDeclaration(sourceFile, <<id>>, modulePath, FALSE),
                                <<id>>, modulePath, FALSE)
              = addImportDeclaration(sourceFile, <<id>>, modulePath, FALSE)

\* a call has just left the file unchanged, and the file imports other from
\* n by a declaration that an earlier call made
C24_RequestWasRepeated ==
    /\ ret = [op |-> "addImportDeclaration", ok |-> FALSE, threw |-> FALSE]
    /\ \E i \in DeclarationsOf(sourceFile, ModuleN) : ImportsPlain(sourceFile[i], "other")

\* the specifiers of the file that carry the alias, as (statement, element)
AliasedAs(statements, alias) ==
    {x \in (1..Len(statements)) \X (1..2 * MaxStatements) :
        /\ x[2] <= Len(statements[x[1]].elements)
        /\ statements[x[1]].elements[x[2]].propertyName # ""
        /\ statements[x[1]].elements[x[2]].name = alias}

\* C25: when a specifier of the file carries alias a, no call adds an
\* identifier requested with alias a, whatever its name and its module
C25_ExistingAliasIsNeverAdded ==
    \A identifiers \in IdentifierLists, modulePath \in ModulePaths, isDefault \in BOOLEAN :
        \A k \in 1..Len(identifiers) :
            (identifiers[k].alias # "" /\ AliasedAs(sourceFile, identifiers[k].alias) # {})
                => Cardinality(AliasedAs(addImportDeclaration(sourceFile, identifiers,
                                                              modulePath, isDefault),
                                         identifiers[k].alias))
                       = Cardinality(AliasedAs(sourceFile, identifiers[k].alias))

\* C26: a file that starts with at most one import declaration for each
\* module has at most one for each module after every sequence of calls:
\* identifiers that survive for a module that has a declaration are added
\* to that declaration
C26_OneDeclarationPerModule ==
    \A modulePath \in ModulePaths : Cardinality(DeclarationsOf(sourceFile, modulePath)) <= 1

\* the index of the last import declaration of the file, 0 when it has none
LastImport(statements) ==
    SetMax({0} \cup {i \in 1..Len(statements) : isImportDeclaration(statements[i])})

\* the sequence without its k-th element
Without(seq, k) == SubSeq(seq, 1, k - 1) \o SubSeq(seq, k + 1, Len(seq))

\* C27: a call that makes a new declaration puts it right after the last
\* import declaration the file had, and leaves the statements the file had
\* in the order they were in
C27_NewDeclarationFollowsImports ==
    \A identifiers \in IdentifierLists, modulePath \in ModulePaths, isDefault \in BOOLEAN :
        Len(addImportDeclaration(sourceFile, identifiers, modulePath, isDefault))
                = Len(sourceFile) + 1
            => Without(addImportDeclaration(sourceFile, identifiers, modulePath, isDefault),
                       LastImport(sourceFile) + 1) = sourceFile

\* all the specifiers of the file, in order
AllSpecifiers(statements) ==
    Flatten([i \in 1..Len(statements) |-> statements[i].elements])

\* the printed default import of name from modulePath
DefaultImport(name, modulePath) ==
    [kind |-> "import", name |-> name, bindings |-> "none", elements |-> <<>>,
     moduleSpecifier |-> Quoted(DQUOTE, modulePath), synthesized |-> FALSE]

\* C28: a call with isDefault = true that changes the file adds one default
\* import of the first identifier's name, and adds no specifier, also when
\* the module has an import declaration
C28_DefaultRequestAddsDefaultImport ==
    \A identifiers \in IdentifierLists, modulePath \in ModulePaths :
        addImportDeclaration(sourceFile, identifiers, modulePath, TRUE) # sourceFile
            => /\ AllSpecifiers(addImportDeclaration(sourceFile, identifiers,
                                                     modulePath, TRUE))
                      = AllSpecifiers(sourceFile)
               /\ \E k \in 1..(Len(sourceFile) + 1) :
                     /\ Len(addImportDeclaration(sourceFile, identifiers, modulePath, TRUE))
                           = Len(sourceFile) + 1
                     /\ addImportDeclaration(sourceFile, identifiers, modulePath, TRUE)[k]
                           = DefaultImport(identifiers[1].name, modulePath)
                     /\ Without(addImportDeclaration(sourceFile, identifiers,
                                                     modulePath, TRUE), k)
                           \in {sourceFile,
                                SelectSeq(sourceFile, isImportDeclaration)
                                   \o SelectSeq(sourceFile, isNotImportDeclaration)}

(***************************************************************************)
(* The editor on a file with an object literal, an array literal and an    *)
(* import.  The file given to the constructor may come out of a transform  *)
(* and hold a member the factory made.                                     *)
(***************************************************************************)
MaxMembers == 3

Member(name, value, synthesized) ==
    [name |-> name, value |-> value, synthesized |-> synthesized]
MyObj(members) == LiteralStatement("object", "myObj", members)
MyArr(members) == LiteralStatement("array", "myArr", members)

EditedFiles ==
    {<<MyObj(<<Member("k1", "v0", FALSE)>>), MyArr(<<>>)>>,
     <<MyObj(<<Member("k1", "v0", FALSE), Member("k3", "v1", TRUE)>>), MyArr(<<>>)>>,
     <<ImportMock, MyObj(<<Member("k3", "v1", TRUE)>>),
       MyArr(<<Member("", "v0", TRUE)>>)>>}

Keys == {"k1", "k3"}
Values == {"v1", "v2"}
VisitConditions == {{"myObj", "myArr"}, {}}

MembersOf(statements) ==
    Flatten([i \in 1..Len(statements) |-> membersOf(statements[i])])

Edited(op, statements, threw) ==
    /\ sourceFile' = statements
    /\ ret' = [op |-> op, ok |-> sourceFile' # sourceFile, threw |-> threw]
    /\ UNCHANGED <<root, rootDir, watchedFilesMap, disk, matched>>

AddMemberToObjectLiteral(visitCondition, propertyName, propertyValue) ==
    /\ Len(MembersOf(sourceFile)) < MaxMembers
    /\ Edited("addMemberToObjectLiteral",
              addMemberToObjectLiteral(sourceFile, visitCondition, propertyName,
                                       propertyValue),
              propertyValue = "")

UpdateObjectLiteralMember(visitCondition, targetMember) ==
    Edited("updateObjectLiteralMember",
           updateObjectLiteralMember(sourceFile, visitCondition, targetMember), FALSE)

AddMembersToArrayLiteral(visitCondition, elements, prepend) ==
    /\ Len(MembersOf(sourceFile)) < MaxMembers
    /\ Edited("addMembersToArrayLiteral",
              addMembersToArrayLiteral(sourceFile, visitCondition, elements, prepend),
              FALSE)

InitEditor ==
    /\ root = SLASH
    /\ disk = NoDisk
    /\ rootDir \in LoadedTrees(disk, root)
    /\ watchedFilesMap = <<>>
    /\ sourceFile \in EditedFiles
    /\ matched = <<>>
    /\ ret = [op |-> "new", ok |-> TRUE, threw |-> FALSE]

NextEditor ==
    \/ \E c \in VisitConditions, k \in Keys, v \in Values \cup {""} :
          AddMemberToObjectLiteral(c, k, v)
    \/ \E c \in VisitConditions, k \in Keys, v \in Values :
          UpdateObjectLiteralMember(c, [name |-> k, value |-> v])
    \/ \E c \in VisitConditions, v \in Values, prepend \in BOOLEAN :
          AddMembersToArrayLiteral(c, <<createPropertyAssignment("", v)>>, prepend)
    \/ \E modulePath \in ModulePaths :
          Len(sourceFile) < MaxStatements
             /\ AddImportDeclaration(<<[name |-> "other", alias |-> ""]>>, modulePath, FALSE)

SpecEditor == InitEditor /\ [][NextEditor]_vars

(***************************************************************************)
(* Properties of the flush that ends an edit                               *)
(***************************************************************************)
\* no statement and no member of a literal is a node the factory made
NoSynthesizedNode(statements) ==
    /\ \A i \in 1..Len(statements) : ~statements[i].synthesized
    /\ \A j \in 1..Len(MembersOf(statements)) : ~MembersOf(statements)[j].synthesized

ImportRequests ==
    {<<[name |-> "other", alias |-> ""]>>, <<[name |-> "mock", alias |-> "a1"]>>}

\* the object literals a visit condition accepts
Visited(statements, visitCondition) ==
    {i \in 1..Len(statements) :
        statements[i].kind = "object" /\ statements[i].variable \in visitCondition}

\* C29: each of the four mutating editor operations, when it returns, leaves
\* a unit with no synthesized node, and an updateObjectLiteralMember issued
\* right after an addMemberToObjectLiteral, on the key that was added, gives
\* the added member the new value.
C29_EditsEndWithFlush ==
    /\ (ret.op \in {"addMemberToObjectLiteral", "updateObjectLiteralMember",
                    "addMembersToArrayLiteral", "addImportDeclaration"}
           /\ ~ret.threw)
          => NoSynthesizedNode(sourceFile)
    /\ \A c \in VisitConditions, k \in Keys, v \in Values :
          /\ NoSynthesizedNode(addMemberToObjectLiteral(sourceFile, c, k, v))
          /\ NoSynthesizedNode(
                 updateObjectLiteralMember(sourceFile, c, [name |-> k, value |-> v]))
          /\ \A prepend \in BOOLEAN :
                NoSynthesizedNode(
                    addMembersToArrayLiteral(sourceFile, c,
                                             <<createPropertyAssignment("", v)>>,
                                             prepend))
          /\ \A v2 \in Values, i \in Visited(sourceFile, c) :
                LET last == Len(sourceFile[i].members) + 1
                IN updateObjectLiteralMember(
                       addMemberToObjectLiteral(sourceFile, c, k, v), c,
                       [name |-> k, value |-> v2])[i].members[last]
                      = Member(k, v2, FALSE)
    /\ \A ids \in ImportRequests, modulePath \in ModulePaths, isDefault \in BOOLEAN :
          NoSynthesizedNode(addImportDeclaration(sourceFile, ids, modulePath, isDefault))

\* an edit has returned on a unit that was given with a synthesized member,
\* and a key added by one edit carries the value of a later update
C29_AddedKeyWasUpdated ==
    /\ ret.op = "updateObjectLiteralMember"
    /\ \E i \in 1..Len(sourceFile) :
          /\ sourceFile[i].kind = "object"
          /\ Len(sourceFile[i].members) = 2
          /\ sourceFile[i].members[1] = Member("k3", "v1", FALSE)
          /\ sourceFile[i].members[2] = Member("k1", "v2", FALSE)

(***************************************************************************)
(* Properties of an update on a member without positions                   *)
(***************************************************************************)
\* C30: updateObjectLiteralMember leaves every synthesized member of the
\* unit with the key and the value it has, also when its key is the target
\* name, and raises no error.
C30_UpdateSkipsSynthesizedMember ==
    \A c \in VisitConditions, k \in Keys, v \in Values :
       \A i \in 1..Len(sourceFile) :
          sourceFile[i].kind = "object"
             => \A j \in 1..Len(sourceFile[i].members) :
                   sourceFile[i].members[j].synthesized
                      => LET updated ==
                                updateObjectLiteralMember(sourceFile, c,
                                                          [name |-> k, value |-> v])
                         IN /\ Len(updated) = Len(sourceFile)
                            /\ updated[i].members[j].name = sourceFile[i].members[j].name
                            /\ updated[i].members[j].value = sourceFile[i].members[j].value

\* an update has returned on the unit that was given with the synthesized
\* member k3 = v1, and that member has the value it was inserted with
C30_UpdateReturnedOnGivenUnit ==
    /\ ret.op = "updateObjectLiteralMember"
    /\ ~ret.threw
    /\ sourceFile = <<MyObj(<<Member("k1", "v0", FALSE), Member("k3", "v1", FALSE)>>),
                      MyArr(<<>>)>>

(***************************************************************************)
(* Properties of the member an update changes                              *)
(***************************************************************************)
\* the members of a literal whose key is the name
Keyed(members, name) == {j \in 1..Len(members) : members[j].name = name}

\* C31: on a flushed unit, in every object literal the condition accepts,
\* updateObjectLiteralMember gives the new value to the first member whose
\* key is the target name and leaves the key and the value of every other
\* member, a later member with that key too; the number of members is kept.
C31_UpdateChangesFirstMatchOnly ==
    NoSynthesizedNode(sourceFile)
       => \A c \in VisitConditions, k \in Keys, v \in Values :
             \A i \in Visited(sourceFile, c) :
                LET old == sourceFile[i].members
                    new == updateObjectLiteralMember(
                               sourceFile, c, [name |-> k, value |-> v])[i].members
                IN /\ Len(new) = Len(old)
                   /\ \A j \in 1..Len(old) :
                         /\ new[j].name = old[j].name
                         /\ new[j].value = IF Keyed(old, k) # {}
                                              /\ j = SetMin(Keyed(old, k))
                                           THEN v ELSE old[j].value

(***************************************************************************)
(* Properties of the links between a node and its parent                   *)
(***************************************************************************)
\* the entries of the subDirs maps that hold directory d
HoldersOf(h, d) ==
    {x \in (DOMAIN h.dirs) \X (1..Len(h.dirs)) :
        x[2] <= Len(h.dirs[x[1]].subDirs) /\ h.dirs[x[1]].subDirs[x[2]].v = d}

\* every file in a file map has the key as its name, the directory as its
\* parentDir and the directory's path joined with the key as its path;
\* every directory but the root is in one subDirs map, that of its
\* parentDir, under its name
WellLinked(h) ==
    /\ \A d \in DOMAIN h.dirs : \A i \in 1..Len(h.dirs[d].files) :
          LET n == h.dirs[d].files[i].k
              file == h.files[h.dirs[d].files[i].v]
          IN /\ file.name = n
             /\ file.parentDir = d
             /\ file.path = PosixJoin(h.dirs[d].path, n)
    /\ \A d \in DOMAIN h.dirs :
          d # RootId
             => /\ Cardinality(HoldersOf(h, d)) = 1
                /\ \A x \in HoldersOf(h, d) :
                      /\ x[1] = h.dirs[d].parentDir
                      /\ h.dirs[x[1]].subDirs[x[2]].k = h.dirs[d].name

LinkedFilePaths == PlainPaths \cup {UpD \o SLASH \o NameT, InDirD(DotDot)}
LinkedDirPaths == DirPaths \cup {UpD, RootR, InDirD(<<".">>)}

\* C32: the tree of every state reached by moves and copies, and the tree
\* each of createFile, writeFile, deleteFile, moveFile, copyFile,
\* addDirectory and removeDirectory leaves from there, is well linked.
C32_ParentLinksAgreeWithMaps ==
    /\ WellLinked(rootDir)
    /\ \A p \in LinkedFilePaths, c \in Contents :
          /\ WellLinked(createFile(Now, p, c).vfs.rootDir)
          /\ WellLinked(writeFile(Now, p, c).vfs.rootDir)
          /\ WellLinked(deleteFile(Now, p).vfs.rootDir)
    /\ \A p \in LinkedDirPaths :
          /\ WellLinked(addDirectory(Now, p).vfs.rootDir)
          /\ \A force \in BOOLEAN :
                WellLinked(removeDirectory(Now, p, force).vfs.rootDir)
    /\ \A p \in TreeSources, t \in LinkedDirPaths, n \in TreeNewNames :
          /\ WellLinked(vfsMoveFile(Now, p, t, n).vfs.rootDir)
          /\ WellLinked(vfsCopyFile(Now, p, t, n).vfs.rootDir)

\* a file was moved from the root into d under a new name
C32_MovedUnderNewName ==
    /\ ret.op = "moveFile"
    /\ ret.ok
    /\ \E d \in DOMAIN rootDir.dirs : \E i \in 1..Len(rootDir.dirs[d].files) :
          /\ d # RootId
          /\ rootDir.dirs[d].files[i].k = NameNJ
          /\ rootDir.files[rootDir.dirs[d].files[i].v].content = "c0"

(***************************************************************************)
(* Properties of a file created and deleted in one batch                   *)
(***************************************************************************)
BatchPaths == {InDirD(NameNJ), NameNJ, InDirD(NameNew)}

\* C33: at the start of a batch, for a path p with nothing on the backing
\* store, createFile(p, c), then deleteFile(p), then finalize() completes
\* without raising and leaves neither a file nor a directory at p.
C33_CreatedThenDeletedLeavesNothing ==
    watchedFilesMap = <<>>
       => \A p \in BatchPaths, c \in Contents :
             ~existsSync(disk, PosixJoin(root, p))
                => /\ ~finalize(deleteFile(createFile(Now, p, c).vfs, p).vfs,
                                root).threw
                   /\ ~existsSync(finalize(deleteFile(createFile(Now, p, c).vfs,
                                                      p).vfs, root).vfs.disk,
                                  PosixJoin(root, p))

(***************************************************************************)
(* Properties of what deleteFile leaves alone                             *)
(***************************************************************************)
\* the files of a tree: path and content
FilesByPath(h) ==
    {[path |-> PosixJoin(e.dir, e.key), content |-> e.content] : e \in TreeListing(h)}

\* the path of the file that filePath resolves to, <<>> when there is none
PathFound(h, filePath) ==
    IF fileExists(h, filePath) THEN h.files[vfsFindFile(h, filePath)].path ELSE <<>>

\* the current state, and the state after a file named like a ledger key
\* is created in the root
WithKeyNamedFile == {Now, createFile(Now, New, NewContent).vfs}

\* C34: deleteFile(p) leaves every file at a path other than the one p
\* resolves to in the tree with its content, and when it returns true the
\* Deleted entry of the ledger resolves, in the tree before the call, to the
\* file at p.
C34_DeleteFileTouchesOnlyItsPath ==
    \A v \in WithKeyNamedFile, p \in FilePaths :
       /\ \A f \in FilesByPath(v.rootDir) :
             f.path # PathFound(v.rootDir, p)
                => f \in FilesByPath(deleteFile(v, p).vfs.rootDir)
       /\ deleteFile(v, p).ok
             => PathFound(v.rootDir,
                          LedgerGet(deleteFile(v, p).vfs.watchedFilesMap, Deleted))
                   = PathFound(v.rootDir, p)

(***************************************************************************)
(* Properties of the local names a file imports                            *)
(***************************************************************************)
\* the local names the specifiers of the file bind, in order
LocalNames(statements) ==
    [i \in 1..Len(AllSpecifiers(statements)) |-> AllSpecifiers(statements)[i].name]

PairwiseDistinct(names) ==
    \A i \in 1..Len(names), j \in 1..Len(names) : i < j => names[i] # names[j]

\* requests whose local name is the local name of a specifier of ImportMock
\* or of ImportMockAliased
ClashingIdentifiers ==
    {[name |-> "other", alias |-> "mock"], [name |-> "a1", alias |-> ""]}

\* C35: on a file whose specifiers bind pairwise distinct local names, a
\* call for one identifier leaves a file whose specifiers bind pairwise
\* distinct local names.
C35_LocalNamesStayDistinct ==
    PairwiseDistinct(LocalNames(sourceFile))
       => \A id \in Identifiers \cup ClashingIdentifiers,
             modulePath \in ModulePaths, isDefault \in BOOLEAN :
             PairwiseDistinct(LocalNames(addImportDeclaration(sourceFile, <<id>>,
                                                              modulePath, isDefault)))

(***************************************************************************)
(* Properties of the identifiers a request leaves out                      *)
(***************************************************************************)
\* how many specifiers of the file are the one the identifier is written as
SpecifiersFor(statements, identifier) ==
    Cardinality({j \in 1..Len(AllSpecifiers(statements)) :
                    AllSpecifiers(statements)[j]
                       = createImportSpecifierWithOptionalAlias(identifier)})

\* C36: an identifier of a request for named imports that the filter of
\* resolveIdentifiersToImport skips gets no specifier by the call, also when
\* another identifier of the request is kept.
C36_SkippedIdentifierIsNotAdded ==
    \A identifiers \in IdentifierLists, modulePath \in ModulePaths :
        \A k \in 1..Len(identifiers) :
            ~keepsIdentifier(identifiers[k], findImportedIdentifiers(sourceFile, <<>>),
                             modulePath)
               => SpecifiersFor(addImportDeclaration(sourceFile, identifiers,
                                                     modulePath, FALSE),
                                identifiers[k])
                     = SpecifiersFor(sourceFile, identifiers[k])

(***************************************************************************)
(* Properties of a request made twice                                      *)
(***************************************************************************)
\* C37: for every request, default or named, making the same call a second
\* time leaves the file the first call left.
C37_SameCallTwiceIsOnce ==
    \A identifiers \in IdentifierLists, modulePath \in ModulePaths, isDefault \in BOOLEAN :
        addImportDeclaration(addImportDeclaration(sourceFile, identifiers, modulePath,
                                                  isDefault),
                             identifiers, modulePath, isDefault)
           = addImportDeclaration(sourceFile, identifiers, modulePath, isDefault)

(***************************************************************************)
(* Properties of lookups by the names on the way                           *)
(***************************************************************************)
\* the directory that the segments name, map by map, from the root
DirAt(h, parts) == GetParts(h, RootId, parts)

\* the file that the last segment names in the directory the others name
FileAt(h, parts) ==
    IF Len(parts) = 0 \/ DirAt(h, Front(parts)) = NullId THEN NullId
    ELSE MapGet(h.dirs[DirAt(h, Front(parts))].files, parts[Len(parts)])

\* the current state, and the states with a directory or a file added
\* below a directory that has the name of the root r
WithRootNamedDirectory ==
    Grown \cup {addDirectory(Now, RootR).vfs,
                createFile(Now, PosixJoin(RootR, NameT), NewContent).vfs}

\* C38: for a path of one or more segments, the directory that the segments
\* name in the tree is the one findDirectory returns, and the file they name
\* is the one findFile returns, whatever the names are.
C38_LookupFindsWhatTheTreeHolds ==
    \A v \in WithRootNamedDirectory, p \in PlainPaths \cup DirPaths \cup {RootR} :
        /\ DirAt(v.rootDir, NonEmptyParts(Split(p))) # NullId
              => findDirectory(v.rootDir, p) = DirAt(v.rootDir, NonEmptyParts(Split(p)))
        /\ FileAt(v.rootDir, NonEmptyParts(Split(p))) # NullId
              => vfsFindFile(v.rootDir, p) = FileAt(v.rootDir, NonEmptyParts(Split(p)))

(***************************************************************************)
(* Properties of creating and then looking up                              *)
(***************************************************************************)
Dot == <<".">>
\* d/n.j, d//n.j, d/./n.j, d/../n.j
SegmentedFilePaths ==
    {InDirD(NameNJ), DirD \o SLASH \o SLASH \o NameNJ, InDirD(Dot \o SLASH \o NameNJ),
     InDirD(DotDot \o SLASH \o NameNJ)}
\* d/e, d//e, d/./e, d/../e
SegmentedDirPaths ==
    {InDirD(DirE), DirD \o SLASH \o SLASH \o DirE, InDirD(Dot \o SLASH \o DirE),
     InDirD(DotDot \o SLASH \o DirE)}

\* C39: after createFile(p, c) the file exists at p and reads c, and after
\* addDirectory(p) the directory exists at p, also when p has '.' or '..'
\* segments or repeated separators.
C39_CreatedPathIsFoundAgain ==
    /\ \A p \in SegmentedFilePaths, c \in Contents :
          /\ fileExists(createFile(Now, p, c).vfs.rootDir, p)
          /\ readFile(createFile(Now, p, c).vfs.rootDir, p) = c
    /\ \A p \in SegmentedDirPaths :
          directoryExists(addDirectory(Now, p).vfs.rootDir, p)

(***************************************************************************)
(* Properties of createFile without a file name                            *)
(***************************************************************************)
\* the empty path, d/, d/e/ and e/
NamelessPaths ==
    {<<>>, DirD \o SLASH, InDirD(DirE) \o SLASH, DirE \o SLASH}

\* C40: createFile with a path whose last segment is empty raises, and
\* leaves the tree and the ledger as they were before the call.
C40_NamelessCreateChangesNothing ==
    \A p \in NamelessPaths, c \in Contents :
        /\ createFile(Now, p, c).threw
        /\ createFile(Now, p, c).vfs.rootDir = rootDir
        /\ createFile(Now, p, c).vfs.watchedFilesMap = watchedFilesMap

====
